---------------------------- MODULE Spec2Model ----------------------------
(***************************************************************************)
(* Model of the word-search placement engine of src/src/main.rs:           *)
(* Grid, candidate generation, the three placement strategies, the         *)
(* simulated-annealing pass and the orchestrator WordSearchGenerator::     *)
(* generate.                                                               *)
(*                                                                         *)
(* Conventions.  Rows and columns are 0-based as in the source.  A word    *)
(* is a sequence of one-character strings, character i of the source       *)
(* (0-based) is word[i+1].  Option<char>::None is the empty string.        *)
(* Random draws (shuffle, gen_range, gen::<f64>) are nondeterministic      *)
(* choices over the values the generator can return; the anchors drawn by  *)
(* generate_with_size are explored over RangeDraws values spread over the  *)
(* range, its two ends included.                                           *)
(* f64 scores are kept exact: a placement score is compared through        *)
(* integer arithmetic on its terms, a solution score is a fraction.        *)
(***************************************************************************)
EXTENDS Integers, Sequences, FiniteSets, TLC

None == ""
Horizontal == "Horizontal"
Vertical == "Vertical"

Min(a, b) == IF a < b THEN a ELSE b
Max(a, b) == IF a > b THEN a ELSE b
Abs(a) == IF a < 0 THEN 0 - a ELSE a

(***************************************************************************)
(* Grid                                                                    *)
(***************************************************************************)

\* Grid::new
Grid_new(width, height) ==
    [cells |-> [r \in 0..height-1 |-> [c \in 0..width-1 |-> None]],
     width |-> width, height |-> height]

\* The cells a word anchored at its END cell (row, col) spans: the source's
\* start_col = col + 1 - len (Horizontal), start_row = row + 1 - len (Vertical).
SpanCell(word, row, col, direction, i) ==
    IF direction = Horizontal
    THEN <<row, col + 1 - Len(word) + i>>
    ELSE <<row + 1 - Len(word) + i, col>>

\* Grid::can_place_word fits test (the early `return false`).
Fits(word, row, col, direction) ==
    IF direction = Horizontal THEN ~(col + 1 < Len(word)) ELSE ~(row + 1 < Len(word))

InGrid(grid, rc) ==
    rc[1] \in 0..grid.height-1 /\ rc[2] \in 0..grid.width-1

\* Grid::can_place_word indexes self.cells[row][c] without a bounds check: the
\* loop panics at the first cell outside the grid, unless an earlier cell already
\* returned false.
can_place_word_panics(grid, word, row, col, direction) ==
    /\ Fits(word, row, col, direction)
    /\ \E i \in 0..Len(word)-1 :
          /\ ~InGrid(grid, SpanCell(word, row, col, direction, i))
          /\ \A j \in 0..i-1 :
                LET rc == SpanCell(word, row, col, direction, j)
                    existing == grid.cells[rc[1]][rc[2]]
                IN  existing = None \/ existing = word[j+1]

\* Grid::can_place_word (for arguments on which it does not panic)
can_place_word(grid, word, row, col, direction) ==
    /\ Fits(word, row, col, direction)
    /\ \A i \in 0..Len(word)-1 :
          LET rc == SpanCell(word, row, col, direction, i)
              existing == grid.cells[rc[1]][rc[2]]
          IN  existing = None \/ existing = word[i+1]

WriteWordFromAnchor(grid, word, row, col, direction) ==
    [grid EXCEPT !.cells =
        [r \in 0..grid.height-1 |-> [c \in 0..grid.width-1 |->
            IF direction = Horizontal
            THEN IF r = row /\ c >= col /\ c <= col + Len(word) - 1
                 THEN word[c - col + 1] ELSE grid.cells[r][c]
            ELSE IF c = col /\ r >= row /\ r <= row + Len(word) - 1
                 THEN word[r - row + 1] ELSE grid.cells[r][c]]]]

\* The writes of Grid::place_word once can_place_word has returned true.
WriteWord(grid, word, row, col, direction) ==
    LET n == Len(word) IN
    [grid EXCEPT !.cells =
        [r \in 0..grid.height-1 |-> [c \in 0..grid.width-1 |->
            IF direction = Horizontal
            THEN IF r = row /\ c >= col + 1 - n /\ c <= col
                 THEN word[c - (col + 1 - n) + 1] ELSE grid.cells[r][c]
            ELSE IF c = col /\ r >= row + 1 - n /\ r <= row
                 THEN word[r - (row + 1 - n) + 1] ELSE grid.cells[r][c]]]]

\* Grid::place_word: the grid after the call (unchanged when it returns false;
\* its return value is can_place_word).
place_word(grid, word, row, col, direction) ==
    IF ~can_place_word(grid, word, row, col, direction)
    THEN grid
    ELSE WriteWord(grid, word, row, col, direction)

Populated(grid) ==
    {rc \in (0..grid.height-1) \X (0..grid.width-1) : grid.cells[rc[1]][rc[2]] # None}

SetMin(S) == CHOOSE x \in S : \A y \in S : x <= y
SetMax(S) == CHOOSE x \in S : \A y \in S : x >= y

\* Grid::calculate_used_area: <<min_row, max_row, min_col, max_col>>
calculate_used_area(grid) ==
    LET P == Populated(grid) IN
    IF P = {} THEN <<0, 0, 0, 0>>
    ELSE <<SetMin({rc[1] : rc \in P}), SetMax({rc[1] : rc \in P}),
           SetMin({rc[2] : rc \in P}), SetMax({rc[2] : rc \in P})>>

\* Grid::get_used_dimensions: <<used_height, used_width>>
get_used_dimensions(grid) ==
    LET a == calculate_used_area(grid) IN <<a[2] - a[1] + 1, a[4] - a[3] + 1>>

compact_unshifted(grid) ==
    LET a == calculate_used_area(grid)
        new_height == a[2] - a[1] + 1
        new_width == a[4] - a[3] + 1
    IN  [cells |-> [r \in 0..new_height-1 |-> [c \in 0..new_width-1 |->
                        grid.cells[r][c]]],
         width |-> new_width, height |-> new_height]

\* Grid::compact: the new grid; the returned offset is CompactOffset.
compact(grid) ==
    LET a == calculate_used_area(grid)
        new_height == a[2] - a[1] + 1
        new_width == a[4] - a[3] + 1
    IN  [cells |-> [r \in 0..new_height-1 |-> [c \in 0..new_width-1 |->
                        grid.cells[a[1] + r][a[3] + c]]],
         width |-> new_width, height |-> new_height]

\* An offset taken from the far corner of the used area
CompactOffsetFar(grid) ==
    LET a == calculate_used_area(grid) IN <<a[2], a[4]>>

CompactOffset(grid) ==
    LET a == calculate_used_area(grid) IN <<a[1], a[3]>>

\* The indices of lo..hi that satisfy keep, in increasing order.
RECURSIVE KeptIndices(_, _, _)
KeptIndices(lo, hi, keep) ==
    IF lo > hi THEN <<>>
    ELSE IF lo \in keep THEN <<lo>> \o KeptIndices(lo + 1, hi, keep)
    ELSE KeptIndices(lo + 1, hi, keep)

try_remove_empty_rows(grid) ==
    LET rowsKept == KeptIndices(0, grid.height - 1,
                        {r \in 0..grid.height-1 :
                            \E c \in 0..grid.width-1 : grid.cells[r][c] # None})
        nr == Len(rowsKept)
    IN  [cells |-> [r \in 0..nr-1 |-> [c \in 0..grid.width-1 |->
                        grid.cells[rowsKept[r+1]][c]]],
         width |-> grid.width, height |-> nr]

\* Grid::try_remove_empty_rows_cols: the first loop removes every row with no
\* populated cell, the second every column with no populated cell in the rows
\* that are left.
try_remove_empty_rows_cols(grid) ==
    LET rowsKept == KeptIndices(0, grid.height - 1,
                        {r \in 0..grid.height-1 :
                            \E c \in 0..grid.width-1 : grid.cells[r][c] # None})
        nr == Len(rowsKept)
        colsKept == KeptIndices(0, grid.width - 1,
                        {c \in 0..grid.width-1 :
                            \E i \in 1..nr : grid.cells[rowsKept[i]][c] # None})
        nc == Len(colsKept)
    IN  [cells |-> [r \in 0..nr-1 |-> [c \in 0..nc-1 |->
                        grid.cells[rowsKept[r+1]][colsKept[c+1]]]],
         width |-> nc, height |-> nr]

\* The `changed` flag try_remove_empty_rows_cols returns.
TrimChanged(grid) ==
    LET g == try_remove_empty_rows_cols(grid)
    IN  g.height # grid.height \/ g.width # grid.width

(***************************************************************************)
(* WordSearchGenerator: pure helpers                                       *)
(***************************************************************************)

\* usize::MAX, the value word.len()-1 wraps to for an empty word when the build
\* has no overflow checks.  Only its being larger than every grid dimension is
\* used (TLC's integers are 32 bits wide).
UsizeMax == 2147483647

\* word.len() - 1 as the build computes it (callers handle the panic of a build
\* with overflow checks before using it).
LenMinus1(word) == IF Len(word) = 0 THEN UsizeMax ELSE Len(word) - 1

\* slice.sort_by is a stable sort: the elements of s, those that rank first
\* first, equal elements in their order in s.  before is the set of the pairs
\* <<j, i>> for which the comparator puts s[j] strictly before s[i] (a strict
\* weak order).
StableSort(s, before) ==
    LET n == Len(s)
        rank == [i \in 1..n |->
                    Cardinality({j \in 1..n :
                        \/ <<j, i>> \in before
                        \/ (<<i, j>> \notin before /\ j < i)})]
    IN  [k \in 1..n |-> s[CHOOSE i \in 1..n : rank[i] = k - 1]]

RECURSIVE SumSeq(_)
SumSeq(s) == IF s = <<>> THEN 0 ELSE Head(s) + SumSeq(Tail(s))

RECURSIVE MaxSeq(_)
MaxSeq(s) == IF s = <<>> THEN 0 ELSE Max(Head(s), MaxSeq(Tail(s)))

Lens(words) == [i \in 1..Len(words) |-> Len(words[i])]

RECURSIVE Isqrt(_, _)
Isqrt(n, r) == IF (r + 1) * (r + 1) > n THEN r ELSE Isqrt(n, r + 1)

\* count_letter_frequency
count_letter_frequency(hw, vw, letter) ==
    LET cnt(words) == SumSeq([i \in 1..Len(words) |->
                         Cardinality({k \in 1..Len(words[i]) : words[i][k] = letter})])
    IN  cnt(hw) + cnt(vw)

\* Twice score_intersection_potential (the score is a multiple of 0.5):
\* 2*(h_len+v_len) + 20 - (|h_char_idx - h_len/2| + |v_char_idx - v_len/2|)
\* + 5*letter_frequency.
score_intersection_potential2(hw, vw, x) ==
    LET h_len == Len(hw[x.h_word_idx + 1])
        v_len == Len(vw[x.v_word_idx + 1])
    IN  4 * (h_len + v_len) + 40
        - (Abs(2 * x.h_char_idx - h_len) + Abs(2 * x.v_char_idx - v_len))
        + 10 * count_letter_frequency(hw, vw, x.character)

RECURSIVE Concat(_)
Concat(ss) == IF ss = <<>> THEN <<>> ELSE Head(ss) \o Concat(Tail(ss))

\* The nested enumeration loops of find_all_intersections, in push order.
EnumIntersections(hw, vw) ==
    Concat([h \in 1..Len(hw) |->
      Concat([v \in 1..Len(vw) |->
        Concat([hc \in 1..Len(hw[h]) |->
          Concat([vc \in 1..Len(vw[v]) |->
            IF hw[h][hc] = vw[v][vc]
            THEN <<[h_word_idx |-> h - 1, v_word_idx |-> v - 1,
                    h_char_idx |-> hc - 1, v_char_idx |-> vc - 1,
                    character |-> hw[h][hc]]>>
            ELSE <<>>])])])])

\* The intersections in the order the loops push them
find_all_intersections_unsorted(hw, vw) == EnumIntersections(hw, vw)

\* find_all_intersections
find_all_intersections(hw, vw) ==
    LET xs == EnumIntersections(hw, vw)
        sc == [i \in 1..Len(xs) |-> score_intersection_potential2(hw, vw, xs[i])]
    IN  StableSort(xs, {p \in (1..Len(xs)) \X (1..Len(xs)) : sc[p[1]] > sc[p[2]]})

\* estimate_grid_size: <<width, height>>.  (total_chars as f64 * 0.85) as usize
\* and the f64 square root are floor(85*n/100) and the integer square root for
\* every n below 2000.
estimate_grid_size(hw, vw) ==
    LET max_h_len == MaxSeq(Lens(hw))
        max_v_len == MaxSeq(Lens(vw))
        total_chars == SumSeq(Lens(hw)) + SumSeq(Lens(vw))
        estimated_area == (total_chars * 85) \div 100
        estimated_side == Isqrt(estimated_area, 0)
        min_width == Max(Max(max_h_len, Len(vw)), 10)
        min_height == Max(Max(max_v_len, Len(hw)), 10)
    IN  <<Max(estimated_side, min_width), Max(estimated_side, min_height)>>

\* The number of cells of the span of word, anchored at END cell (row, col), that
\* already hold the word's character (intersection_count of
\* calculate_placement_score).
intersection_count(grid, word, row, col, direction) ==
    Cardinality({i \in 0..Len(word)-1 :
        LET rc == SpanCell(word, row, col, direction, i)
        IN  grid.cells[rc[1]][rc[2]] = word[i+1]})

\* calculate_placement_score, as the terms that vary between the candidates of
\* one word: score = 100 - sqrt(d4)/2 + 75*ic + 2*len, where
\* d4 = 4 * ((row - height/2)^2 + (col - width/2)^2).
calculate_placement_score(grid, word, row, col, direction) ==
    [ic |-> intersection_count(grid, word, row, col, direction),
     d4 |-> (2 * row - grid.height) * (2 * row - grid.height)
            + (2 * col - grid.width) * (2 * col - grid.width)]

\* a.score > b.score for two candidates of the same word, exactly:
\* 150*(a.ic - b.ic) + sqrt(b.d4) > sqrt(a.d4).
ScoreGreater(a, b) ==
    LET k == 150 * (a.ic - b.ic) IN
    IF k = 0 THEN a.d4 < b.d4
    ELSE IF k > 0
    THEN LET R == a.d4 - b.d4 - k * k
         IN  R < 0 \/ 4 * k * k * b.d4 > R * R
    ELSE LET R == b.d4 - a.d4 - k * k
         IN  R > 0 /\ R * R > 4 * k * k * a.d4

\* a is sorted before b by generate_candidates: sort_by(b.score.partial_cmp(a.score))
\* is stable and both loops push row by row, column by column, so candidates of
\* equal score keep the order of the turns at which they are pushed (ord).
CandidateBefore(a, b) ==
    \/ ScoreGreater(a.score, b.score)
    \/ (~ScoreGreater(b.score, a.score) /\ a.ord < b.ord)

\* The loops of generate_candidates visit rows first_row..height-1 and, in each,
\* columns first_col..width-1: rows from 0 (Horizontal) or len-1 (Vertical),
\* columns from len-1 (Horizontal) or 0 (Vertical).
FirstAnchorRow(word, direction) == IF direction = Horizontal THEN 0 ELSE LenMinus1(word)
FirstAnchorCol(word, direction) == IF direction = Horizontal THEN LenMinus1(word) ELSE 0

\* The number of anchors the loops visit
NumAnchors(grid, word, direction) ==
    Max(grid.height - FirstAnchorRow(word, direction), 0)
    * Max(grid.width - FirstAnchorCol(word, direction), 0)

\* The anchor the loops visit at turn ord (from 0)
AnchorAt(grid, word, direction, ord) ==
    [row |-> FirstAnchorRow(word, direction)
             + (ord \div (grid.width - FirstAnchorCol(word, direction))),
     col |-> FirstAnchorCol(word, direction)
             + (ord % (grid.width - FirstAnchorCol(word, direction)))]

\* The candidates the loops push: one for every anchor that can_place_word
\* accepts, with the turn at which it is pushed (ord) and its score.
PushedCandidates(grid, word, direction) ==
    {[row |-> AnchorAt(grid, word, direction, ord).row,
      col |-> AnchorAt(grid, word, direction, ord).col,
      direction |-> direction,
      ord |-> ord,
      score |-> calculate_placement_score(grid, word,
                    AnchorAt(grid, word, direction, ord).row,
                    AnchorAt(grid, word, direction, ord).col, direction)] :
       ord \in {o \in 0..NumAnchors(grid, word, direction) - 1 :
                  can_place_word(grid, word, AnchorAt(grid, word, direction, o).row,
                                 AnchorAt(grid, word, direction, o).col, direction)}}

\* The candidate of C that is sorted first
FirstCandidate(C) == CHOOSE c \in C : \A d \in C : d = c \/ CandidateBefore(c, d)

\* The candidate of C that is sorted next after prev
NextCandidate(C, prev) == FirstCandidate({c \in C : CandidateBefore(prev, c)})

\* Element k (from 1) of the candidates C in sorted order
RECURSIVE SortedCandidate(_, _)
SortedCandidate(C, k) ==
    IF k = 1 THEN FirstCandidate(C)
    ELSE NextCandidate(C, SortedCandidate(C, k - 1))

\* generate_candidates: the Vec of candidates, best score first, at most 50
\* (sort_by, then truncate(50)), as <<len, items>>: its len() and its items,
\* item k computed when it is read.  (The intersections argument is unused by
\* the source.)
generate_candidates(grid, word, direction) ==
    LET C == PushedCandidates(grid, word, direction)
        n == Min(Cardinality(C), 50)
    IN  <<n, [k \in 1..n |-> SortedCandidate(C, k)]>>

\* candidates.len()
NumCandidates(cands) == cands[1]

\* candidates[idx], idx 0-based
CandidateGet(cands, idx) == cands[2][idx + 1]

\* A record that keeps the end anchor as the word's start
PlacedAtEndAnchor(word, row, col, direction) ==
    [word |-> word, start_row |-> row, start_col |-> col, direction |-> direction]

\* The PlacedWord every strategy records for a word placed at END anchor
\* (row, col).
PlacedAt(word, row, col, direction) ==
    [word |-> word,
     start_row |-> IF direction = Horizontal THEN row ELSE row + 1 - Len(word),
     start_col |-> IF direction = Horizontal THEN col + 1 - Len(word) ELSE col,
     direction |-> direction]

remove_word_keeping_last(grid, pw) ==
    [grid EXCEPT !.cells =
        [r \in 0..grid.height-1 |-> [c \in 0..grid.width-1 |->
            IF pw.direction = Horizontal
            THEN IF r = pw.start_row /\ c >= pw.start_col
                    /\ c < pw.start_col + Len(pw.word) - 1
                 THEN None ELSE grid.cells[r][c]
            ELSE IF c = pw.start_col /\ r >= pw.start_row
                    /\ r < pw.start_row + Len(pw.word) - 1
                 THEN None ELSE grid.cells[r][c]]]]

\* remove_word_from_grid
remove_word_from_grid(grid, pw) ==
    [grid EXCEPT !.cells =
        [r \in 0..grid.height-1 |-> [c \in 0..grid.width-1 |->
            IF pw.direction = Horizontal
            THEN IF r = pw.start_row /\ c >= pw.start_col
                    /\ c < pw.start_col + Len(pw.word)
                 THEN None ELSE grid.cells[r][c]
            ELSE IF c = pw.start_col /\ r >= pw.start_row
                    /\ r < pw.start_row + Len(pw.word)
                 THEN None ELSE grid.cells[r][c]]]]

\* remove_word_from_grid indexes grid.cells[word.start_row][col] for every col of
\* the span below grid.width (Horizontal), grid.cells[row][word.start_col] for
\* every row of the span below grid.height (Vertical): the other index is not
\* checked and panics when it is outside the grid.
remove_word_from_grid_panics(grid, pw) ==
    IF pw.direction = Horizontal
    THEN /\ pw.start_row >= grid.height
         /\ \E i \in 0..Len(pw.word)-1 : pw.start_col + i < grid.width
    ELSE /\ pw.start_col >= grid.width
         /\ \E i \in 0..Len(pw.word)-1 : pw.start_row + i < grid.height

\* count_intersections
count_intersections(grid, pw) ==
    Cardinality({i \in 0..Len(pw.word)-1 :
        IF pw.direction = Horizontal
        THEN LET col == pw.start_col + i IN
             /\ grid.cells[pw.start_row][col] # None
             /\ \E r \in 0..grid.height-1 :
                    r # pw.start_row /\ grid.cells[r][col] # None
        ELSE LET row == pw.start_row + i IN
             /\ grid.cells[row][pw.start_col] # None
             /\ \E c \in 0..grid.width-1 :
                    c # pw.start_col /\ grid.cells[row][c] # None})

\* count_total_intersections
count_total_intersections(grid, placed) ==
    SumSeq([i \in 1..Len(placed) |-> count_intersections(grid, placed[i])])

(***************************************************************************)
(* Scores of whole solutions                                               *)
(***************************************************************************)

\* A score n1/area + n2/sq + k kept exact as its terms; sq is 1 + |height - width|.
NegInfinity == [neg_inf |-> TRUE]

SolutionScore(n1, n2, grid, k) ==
    LET d == get_used_dimensions(grid)
    IN  [neg_inf |-> FALSE, n1 |-> n1, n2 |-> n2, area |-> d[1] * d[2],
         sq |-> 1 + Abs(d[1] - d[2]), k |-> k]

\* x * (y.area * y.sq), x's value over the common denominator of x and y
ScoreNum(x, y) ==
    (x.n1 * x.sq + x.n2 * x.area + x.k * x.area * x.sq) * (y.area * y.sq)

\* A comparison that every pair of scores passes
ScoreAny(x, y) == TRUE

\* x > y on f64 scores
ScoreGT(x, y) ==
    IF x.neg_inf THEN FALSE
    ELSE IF y.neg_inf THEN TRUE
    ELSE ScoreNum(x, y) > ScoreNum(y, x)

ScoreGE(x, y) == ~ScoreGT(y, x)

\* evaluate_solution: 2000/area + 200/(1+diff) + 25*intersections, in units of 25
evaluate_solution(grid, placed) ==
    SolutionScore(80, 8, grid, count_total_intersections(grid, placed))

\* total_score of generate_optimized: 1000/area + 100/(1+diff) + 10*intersections,
\* in units of 10
optimized_score(grid, placed) ==
    SolutionScore(100, 10, grid, count_total_intersections(grid, placed))

\* total_score of generate_intersection_first:
\* 2000/area + 200/(1+diff) + 25*(forced + intersections), in units of 25
intersection_first_score(grid, placed, forced) ==
    SolutionScore(80, 8, grid, forced + count_total_intersections(grid, placed))

\* score of generate_with_size: area * 10 + square_diff * 3 (a usize)
standard_score(grid) ==
    LET d == get_used_dimensions(grid) IN d[1] * d[2] * 10 + Abs(d[1] - d[2]) * 3

NoSolution == [some |-> FALSE]
Some(g, p) == [some |-> TRUE, grid |-> g, placed |-> p]

(***************************************************************************)
(* Local optimizer step                                                    *)
(***************************************************************************)

\* Vec::remove(word_idx), word_idx 0-based
RemoveAt(s, idx) ==
    [i \in 1..Len(s)-1 |-> IF i <= idx THEN s[i] ELSE s[i+1]]

\* The last of the first `take` candidates
FirstFitLast(grid, word, cands, i, take) ==
    IF NumCandidates(cands) = 0 THEN <<>>
    ELSE <<CandidateGet(cands, Min(NumCandidates(cands), take) - 1)>>

\* The first of the first `take` candidates that place_word accepts on grid, as
\* a one-element sequence; <<>> when none does.
RECURSIVE FirstFit(_, _, _, _, _)
FirstFit(grid, word, cands, i, take) ==
    IF i > NumCandidates(cands) \/ i > take THEN <<>>
    ELSE LET c == CandidateGet(cands, i - 1)
         IN  IF can_place_word(grid, word, c.row, c.col, c.direction)
             THEN <<c>>
             ELSE FirstFit(grid, word, cands, i + 1, take)

\* try_optimize_single_word with rng.gen_range(0..placed_words.len()) = word_idx:
\* [ok |-> the returned bool, grid, placed |-> the two &mut arguments afterwards].
try_optimize_single_word(grid, placed, word_idx) ==
    LET removed == placed[word_idx + 1]
        g1 == remove_word_from_grid(grid, removed)
        p1 == RemoveAt(placed, word_idx)
        fit == FirstFit(g1, removed.word,
                        generate_candidates(g1, removed.word, removed.direction), 1, 5)
        back_row == IF removed.direction = Horizontal THEN removed.start_row
                    ELSE removed.start_row + Len(removed.word) - 1
        back_col == IF removed.direction = Horizontal
                    THEN removed.start_col + Len(removed.word) - 1
                    ELSE removed.start_col
    IN  IF fit # <<>>
        THEN [ok |-> TRUE,
              grid |-> place_word(g1, removed.word, fit[1].row, fit[1].col,
                                  fit[1].direction),
              placed |-> Append(p1, PlacedAt(removed.word, fit[1].row, fit[1].col,
                                             fit[1].direction))]
        ELSE IF can_place_word(g1, removed.word, back_row, back_col, removed.direction)
        THEN [ok |-> FALSE,
              grid |-> place_word(g1, removed.word, back_row, back_col,
                                  removed.direction),
              placed |-> Append(p1, removed)]
        ELSE [ok |-> FALSE, grid |-> g1, placed |-> p1]

(***************************************************************************)
(* Orchestrator tables                                                     *)
(***************************************************************************)

\* The table with its first two entries exchanged
algorithms_swapped ==
    << [algo |-> "intersection-first", mult10 |-> 7],
       [algo |-> "optimized", mult10 |-> 6],
       [algo |-> "optimized", mult10 |-> 8],
       [algo |-> "optimized", mult10 |-> 10],
       [algo |-> "standard", mult10 |-> 12] >>

\* The `algorithms` array of generate; the multiplier in tenths.
algorithms ==
    << [algo |-> "optimized", mult10 |-> 6],
       [algo |-> "intersection-first", mult10 |-> 7],
       [algo |-> "optimized", mult10 |-> 8],
       [algo |-> "optimized", mult10 |-> 10],
       [algo |-> "standard", mult10 |-> 12] >>

\* Every entry given all of max_attempts
StageAttemptsUndivided(max) == max

\* max_attempts / 5, the attempts of every entry of `algorithms`
StageAttempts(max) == max \div 5

\* ((initial as f64) * multiplier) as usize; equal to floor(n*mult10/10) for the
\* five multipliers and every n below 90.
ScaleDim(n, mult10) == (n * mult10) \div 10

\* An annealing pass of twice the length
AnnealIterationsDoubled == 2 * 100

\* The iterations generate passes to generate_simulated_annealing
AnnealIterations == 100

\* A try loop without a limit
StandardTriesUnlimited == UsizeMax

\* The random tries generate_with_size gives each word
StandardTries == 150

\* WordSearchGenerator::new: sort_by(|a, b| b.len().cmp(&a.len())), stable
SortByLenDesc(words) ==
    StableSort(words, {p \in (1..Len(words)) \X (1..Len(words)) :
                          Len(words[p[1]]) > Len(words[p[2]])})

\* slice.shuffle: every order of the indices 0..n-1
Perms(n) ==
    {p \in [1..n -> 0..n-1] : \A i, j \in 1..n : i # j => p[i] # p[j]}

\* The first `k` elements of a shuffle of 1..n: every injective choice
Firsts(k, n) ==
    {p \in [1..k -> 1..n] : \A i, j \in 1..k : i # j => p[i] # p[j]}

\* The alternating placement_queue generate_optimized builds from the two
\* shuffled index lists.
RECURSIVE Interleave(_, _)
Interleave(hs, vs) ==
    IF hs = <<>> /\ vs = <<>> THEN <<>>
    ELSE IF vs = <<>>
    THEN <<[word_idx |-> Head(hs), direction |-> Horizontal]>> \o Interleave(Tail(hs), vs)
    ELSE IF hs = <<>>
    THEN <<[word_idx |-> Head(vs), direction |-> Vertical]>> \o Interleave(hs, Tail(vs))
    ELSE <<[word_idx |-> Head(hs), direction |-> Horizontal],
           [word_idx |-> Head(vs), direction |-> Vertical]>>
         \o Interleave(Tail(hs), Tail(vs))

\* The candidate loop of generate_optimized: try_count tries, the first three at
\* indices 0, 1, 2, the later ones at rng.gen_range(0..candidates.len()); the
\* set of the possible outcomes, each <<candidate>> (placed) or <<>> (not placed).
RECURSIVE OptPick(_, _, _, _)
OptPick(grid, word, cands, i) ==
    LET n == NumCandidates(cands)
        try_count == Max(Min(n, 10), 1)
    IN  IF i >= try_count THEN {<<>>}
        ELSE UNION {
               IF idx < n
               THEN LET c == CandidateGet(cands, idx)
                    IN  IF can_place_word(grid, word, c.row, c.col, c.direction)
                        THEN {<<c>>}
                        ELSE OptPick(grid, word, cands, i + 1)
               ELSE OptPick(grid, word, cands, i + 1)
               : idx \in (IF i < 3 THEN {i} ELSE 0..n-1)}

(***************************************************************************)
(* Inputs                                                                  *)
(***************************************************************************)

CAT == <<"C", "A", "T">>
CAR == <<"C", "A", "R">>

\* A word of n copies of letter
Repeat(letter, n) == [i \in 1..n |-> letter]

DefaultMaxAttempts == 1000

\* The values rng.gen_range(lo..hi) is explored over in generate_with_size: at
\* most RangeDraws values of the range, spread evenly from its first to its last.
RangeDraws == 2
Draws(lo, hi, n) ==
    IF hi - lo <= n THEN lo..(hi - 1)
    ELSE IF n = 1 THEN {lo}
    ELSE {lo + (((hi - 1 - lo) * i) \div (n - 1)) : i \in 0..(n - 1)}

\* The WordLists and max_attempts the model runs generate on:
\*   CAT across CAR, two horizontal words that can share a cell and two that
\*     cannot, with the default max_attempts;
\*   a horizontal word too long for the first stage's grid, with a vertical word
\*     that shares a letter with it;
\*   two words too long for the first three stages' grids that cannot cross, with one
\*     attempt and with two attempts per stage;
\*   an empty word;
\*   each kind with max_attempts = 1.
Inputs ==
    {[horizontal |-> <<CAT>>, vertical |-> <<CAR>>, max_attempts |-> DefaultMaxAttempts],
     [horizontal |-> <<<<"A", "B">>, <<"A">>>>, vertical |-> <<>>,
      max_attempts |-> DefaultMaxAttempts],
     [horizontal |-> <<<<"A">>, <<"B">>>>, vertical |-> <<>>,
      max_attempts |-> DefaultMaxAttempts],
     [horizontal |-> <<<<"A", "B", "C", "D", "E", "F", "G">>>>,
      vertical |-> <<<<"D", "X">>>>, max_attempts |-> 5],
     [horizontal |-> <<Repeat("A", 10)>>, vertical |-> <<Repeat("B", 10)>>,
      max_attempts |-> 5],
     [horizontal |-> <<Repeat("A", 10)>>, vertical |-> <<Repeat("B", 10)>>,
      max_attempts |-> 10],
     [horizontal |-> <<<<"A">>, <<>>>>, vertical |-> <<>>, max_attempts |-> 5],
     [horizontal |-> <<<<"A">>>>, vertical |-> <<<<>>>>, max_attempts |-> 5]}
    \cup {[horizontal |-> h, vertical |-> v, max_attempts |-> 1] :
            h \in {<<CAT>>, <<Repeat("A", 10)>>, <<<<"A">>, <<>>>>},
            v \in {<<>>, <<CAR>>, <<<<>>>>}}

\* Whether some input word is empty
HasEmptyWord(hw, vw) ==
    (\E i \in 1..Len(hw) : hw[i] = <<>>) \/ (\E i \in 1..Len(vw) : vw[i] = <<>>)

(***************************************************************************)
(* State                                                                   *)
(***************************************************************************)

VARIABLES
    horizontal_words,   \* WordSearchGenerator.horizontal_words
    vertical_words,     \* WordSearchGenerator.vertical_words
    max_attempts,       \* the argument of generate
    overflow_checks,    \* whether the build panics on arithmetic overflow
    pc,                 \* where generate is
    stage,              \* index into `algorithms` of generate's for loop (0-based)
    stage_log,          \* what the strategies run so far returned
    attempt,            \* a strategy's `attempt`
    best_solution,      \* a strategy's best_solution
    best_score,         \* a strategy's best_score (best_area in generate_with_size)
    success_scores,     \* history: the scores of the strategy's attempts that
                        \* reached `if success`
    grid,               \* the grid of the attempt; later generate's `grid`
    placed_words,       \* the placed_words of the attempt; later generate's
    queue,              \* the words the attempt has still to place
    forced_queue,       \* intersection-first: the shuffled intersections still to try
    forced_intersections,
    used_h_words,
    used_v_words,
    tries,              \* generate_with_size: `attempts` of the current word
    initial_solution,   \* generate_simulated_annealing's argument
    current_solution,
    sa_best_solution,   \* generate_simulated_annealing's best_solution
    sa_best_score,      \* generate_simulated_annealing's best_score
    iteration,
    coolings,           \* temperature = 1000 * 0.95^coolings
    result,             \* what generate returned
    u_grid,             \* a Grid a caller holds: the receiver of direct calls
    u_call,             \* the last direct call on it: arguments, grid before, return
    u_phase             \* how far u_grid is through compact + trim-until-stable

vars == <<horizontal_words, vertical_words, max_attempts, overflow_checks, pc, stage,
          stage_log, attempt, best_solution, best_score, success_scores, grid,
          placed_words, queue, forced_queue, forced_intersections, used_h_words, used_v_words, tries,
          initial_solution, current_solution, sa_best_solution, sa_best_score,
          iteration, coolings, result, u_grid, u_call, u_phase>>

unit_vars == <<u_grid, u_call, u_phase>>
input_vars == <<horizontal_words, vertical_words, max_attempts, overflow_checks>>
attempt_vars == <<grid, placed_words, queue, forced_queue, forced_intersections,
                  used_h_words, used_v_words, tries>>
strategy_vars == <<attempt, best_solution, best_score, success_scores>>
sa_vars == <<initial_solution, current_solution, sa_best_solution, sa_best_score,
             iteration, coolings>>

EmptyGrid == Grid_new(0, 0)

\* No direct call on u_grid has been made
NoCall == [op |-> "none"]

Stage == algorithms[stage + 1]
StageWidth ==
    ScaleDim(estimate_grid_size(horizontal_words, vertical_words)[1], Stage.mult10)
StageHeight ==
    ScaleDim(estimate_grid_size(horizontal_words, vertical_words)[2], Stage.mult10)

\* A lookup that takes the first word of the list for every item
WordOfFirst(item) ==
    IF item.direction = Horizontal THEN horizontal_words[1] ELSE vertical_words[1]

WordOf(item) ==
    IF item.direction = Horizontal THEN horizontal_words[item.word_idx + 1]
    ELSE vertical_words[item.word_idx + 1]

\* The attempt's locals, dropped when the attempt ends
ClearAttempt ==
    /\ grid' = EmptyGrid
    /\ placed_words' = <<>>
    /\ queue' = <<>>
    /\ forced_queue' = <<>>
    /\ forced_intersections' = 0
    /\ used_h_words' = <<>>
    /\ used_v_words' = <<>>
    /\ tries' = 0

Init ==
    /\ \E inp \in Inputs :
          /\ horizontal_words = SortByLenDesc(inp.horizontal)
          /\ vertical_words = SortByLenDesc(inp.vertical)
          /\ max_attempts = inp.max_attempts
    /\ overflow_checks \in (IF HasEmptyWord(horizontal_words, vertical_words)
                            THEN BOOLEAN ELSE {FALSE})
    /\ pc = "generate"
    /\ stage = 0
    /\ stage_log = <<>>
    /\ attempt = 0
    /\ best_solution = NoSolution
    /\ best_score = NegInfinity
    /\ success_scores = {}
    /\ grid = EmptyGrid
    /\ placed_words = <<>>
    /\ queue = <<>>
    /\ forced_queue = <<>>
    /\ forced_intersections = 0
    /\ used_h_words = <<>>
    /\ used_v_words = <<>>
    /\ tries = 0
    /\ initial_solution = NoSolution
    /\ current_solution = NoSolution
    /\ sa_best_solution = NoSolution
    /\ sa_best_score = NegInfinity
    /\ iteration = 0
    /\ coolings = 0
    /\ result = NoSolution
    /\ u_grid = EmptyGrid
    /\ u_call = NoCall
    /\ u_phase = "fresh"

(***************************************************************************)
(* generate: the loop over `algorithms`                                    *)
(***************************************************************************)

\* One entry of `algorithms`: the strategy is called (its locals initialised).
StartStage ==
    /\ pc = "generate"
    /\ stage < Len(algorithms)
    /\ pc' = "strategy"
    /\ attempt' = 0
    /\ best_solution' = NoSolution
    /\ best_score' = IF Stage.algo = "standard" THEN UsizeMax ELSE NegInfinity
    /\ success_scores' = {}
    /\ UNCHANGED <<unit_vars, input_vars, stage, stage_log, attempt_vars, sa_vars, result>>

\* The loop over `algorithms` is exhausted: generate returns None.
ReturnNone ==
    /\ pc = "generate"
    /\ stage = Len(algorithms)
    /\ result' = NoSolution
    /\ pc' = "done"
    /\ UNCHANGED <<unit_vars, input_vars, stage, stage_log, strategy_vars, attempt_vars, sa_vars>>

\* A rejected attempt whose partial layout is kept as the solution
FailAttemptKeepsLayout ==
    /\ attempt' = attempt + 1
    /\ pc' = "strategy"
    /\ ClearAttempt
    /\ best_solution' = Some(grid, placed_words)
    /\ UNCHANGED <<unit_vars, input_vars, stage, stage_log, best_score, success_scores,
                   sa_vars, result>>

\* An attempt that could not place a word: success = false, next attempt.
FailAttempt ==
    /\ attempt' = attempt + 1
    /\ pc' = "strategy"
    /\ ClearAttempt
    /\ UNCHANGED <<unit_vars, input_vars, stage, stage_log, best_solution, best_score,
                   success_scores, sa_vars, result>>

Panic ==
    /\ pc' = "panicked"
    /\ UNCHANGED <<unit_vars, input_vars, stage, stage_log, strategy_vars, attempt_vars, sa_vars,
                   result>>

(***************************************************************************)
(* generate_optimized                                                      *)
(***************************************************************************)

OptBeginAttempt ==
    /\ pc = "strategy"
    /\ Stage.algo = "optimized"
    /\ attempt < StageAttempts(max_attempts)
    /\ \E hs \in Perms(Len(horizontal_words)), vs \in Perms(Len(vertical_words)) :
          queue' = Interleave(hs, vs)
    /\ grid' = Grid_new(StageWidth, StageHeight)
    /\ placed_words' = <<>>
    /\ pc' = "opt_place"
    /\ UNCHANGED <<unit_vars, input_vars, stage, stage_log, strategy_vars, forced_queue,
                   forced_intersections, used_h_words, used_v_words, tries, sa_vars,
                   result>>

\* One turn of `while let Some(..) = placement_queue.pop_front()`
OptPlace ==
    /\ pc = "opt_place"
    /\ queue # <<>>
    /\ LET word == WordOf(Head(queue))
           direction == Head(queue).direction
       IN  IF Len(word) = 0 /\ overflow_checks
           THEN Panic
           ELSE \E pick \in OptPick(grid, word,
                                    generate_candidates(grid, word, direction), 0) :
                  IF pick = <<>>
                  THEN FailAttempt
                  ELSE /\ grid' = place_word(grid, word, pick[1].row, pick[1].col,
                                             pick[1].direction)
                       /\ placed_words' = Append(placed_words,
                              PlacedAt(word, pick[1].row, pick[1].col,
                                       pick[1].direction))
                       /\ queue' = Tail(queue)
                       /\ UNCHANGED <<unit_vars, input_vars, pc, stage, stage_log, strategy_vars,
                                      forced_queue, forced_intersections,
                                      used_h_words, used_v_words, tries, sa_vars,
                                      result>>

\* `if success`: the attempt placed every word; it is scored and may become the best.
OptEndAttempt ==
    /\ pc = "opt_place"
    /\ queue = <<>>
    /\ LET total_score == optimized_score(grid, placed_words)
       IN  IF ScoreGT(total_score, best_score)
           THEN /\ best_score' = total_score
                /\ best_solution' = Some(grid, placed_words)
           ELSE UNCHANGED <<best_score, best_solution>>
    /\ success_scores' = success_scores \cup {optimized_score(grid, placed_words)}
    /\ attempt' = attempt + 1
    /\ pc' = "strategy"
    /\ ClearAttempt
    /\ UNCHANGED <<unit_vars, input_vars, stage, stage_log, sa_vars, result>>

(***************************************************************************)
(* generate_intersection_first                                             *)
(***************************************************************************)

Intersections == find_all_intersections(horizontal_words, vertical_words)

\* The attempt's locals; intersections_copy.shuffle(), of which take(3) is used.
IFBeginAttempt ==
    /\ pc = "strategy"
    /\ Stage.algo = "intersection-first"
    /\ attempt < StageAttempts(max_attempts)
    /\ \E top \in Firsts(Min(3, Len(Intersections)), Len(Intersections)) :
          forced_queue' = [i \in 1..Len(top) |-> Intersections[top[i]]]
    /\ grid' = Grid_new(StageWidth, StageHeight)
    /\ placed_words' = <<>>
    /\ used_h_words' = [i \in 1..Len(horizontal_words) |-> FALSE]
    /\ used_v_words' = [i \in 1..Len(vertical_words) |-> FALSE]
    /\ forced_intersections' = 0
    /\ pc' = "if_phase1"
    /\ UNCHANGED <<unit_vars, input_vars, stage, stage_log, strategy_vars, queue, tries, sa_vars,
                   result>>

\* Phase 1, one turn of `for intersection in intersections_copy.iter().take(3)`.
\* The two place_word results are not looked at.
IFForce ==
    /\ pc = "if_phase1"
    /\ forced_queue # <<>>
    /\ LET x == Head(forced_queue)
           h_word == horizontal_words[x.h_word_idx + 1]
           v_word == vertical_words[x.v_word_idx + 1]
           center_row == grid.height \div 2
           center_col == grid.width \div 2
           h_row == center_row
           h_col == center_col + x.h_char_idx
           v_row == center_row + x.v_char_idx
           v_col == center_col
           g1 == place_word(grid, h_word, h_row, h_col, Horizontal)
           g2 == place_word(g1, v_word, v_row, v_col, Vertical)
       IN  IF used_h_words[x.h_word_idx + 1] \/ used_v_words[x.v_word_idx + 1]
           THEN UNCHANGED <<grid, placed_words, used_h_words, used_v_words,
                            forced_intersections>>
           ELSE IF /\ h_col < grid.width
                   /\ v_row < grid.height
                   /\ can_place_word(grid, h_word, h_row, h_col, Horizontal)
                   /\ can_place_word(grid, v_word, v_row, v_col, Vertical)
           THEN /\ grid' = g2
                /\ placed_words' =
                      placed_words \o <<PlacedAt(h_word, h_row, h_col, Horizontal),
                                        PlacedAt(v_word, v_row, v_col, Vertical)>>
                /\ used_h_words' = [used_h_words EXCEPT ![x.h_word_idx + 1] = TRUE]
                /\ used_v_words' = [used_v_words EXCEPT ![x.v_word_idx + 1] = TRUE]
                /\ forced_intersections' = forced_intersections + 1
           ELSE UNCHANGED <<grid, placed_words, used_h_words, used_v_words,
                            forced_intersections>>
    /\ forced_queue' = Tail(forced_queue)
    /\ UNCHANGED <<unit_vars, input_vars, pc, stage, stage_log, strategy_vars, queue, tries,
                   sa_vars, result>>

\* The words phase 2 walks: the unused horizontal words in index order, then the
\* unused vertical words.
IFBeginPhase2 ==
    /\ pc = "if_phase1"
    /\ forced_queue = <<>>
    /\ LET hs == KeptIndices(0, Len(horizontal_words) - 1,
                    {i \in 0..Len(horizontal_words)-1 : ~used_h_words[i+1]})
           vs == KeptIndices(0, Len(vertical_words) - 1,
                    {i \in 0..Len(vertical_words)-1 : ~used_v_words[i+1]})
       IN  queue' = [i \in 1..Len(hs) |-> [word_idx |-> hs[i], direction |-> Horizontal]]
                    \o [i \in 1..Len(vs) |-> [word_idx |-> vs[i], direction |-> Vertical]]
    /\ pc' = "if_phase2"
    /\ UNCHANGED <<unit_vars, input_vars, stage, stage_log, strategy_vars, grid, placed_words,
                   forced_queue, forced_intersections, used_h_words, used_v_words,
                   tries, sa_vars, result>>

\* Phase 2, one word: the first of candidates.iter().take(5) that place_word takes.
IFPlace ==
    /\ pc = "if_phase2"
    /\ queue # <<>>
    /\ LET word == WordOf(Head(queue))
           direction == Head(queue).direction
       IN  IF Len(word) = 0 /\ overflow_checks
           THEN Panic
           ELSE \E fit \in {FirstFit(grid, word,
                                     generate_candidates(grid, word, direction), 1, 5)} :
                    IF fit = <<>>
                    THEN FailAttempt
                    ELSE /\ grid' = place_word(grid, word, fit[1].row, fit[1].col,
                                               fit[1].direction)
                         /\ placed_words' = Append(placed_words,
                                PlacedAt(word, fit[1].row, fit[1].col, direction))
                         /\ queue' = Tail(queue)
                         /\ UNCHANGED <<unit_vars, input_vars, pc, stage, stage_log,
                                        strategy_vars, forced_queue,
                                        forced_intersections, used_h_words,
                                        used_v_words, tries, sa_vars, result>>

IFEndAttempt ==
    /\ pc = "if_phase2"
    /\ queue = <<>>
    /\ LET total_score ==
               intersection_first_score(grid, placed_words, forced_intersections)
       IN  IF ScoreGT(total_score, best_score)
           THEN /\ best_score' = total_score
                /\ best_solution' = Some(grid, placed_words)
           ELSE UNCHANGED <<best_score, best_solution>>
    /\ success_scores' = success_scores \cup {intersection_first_score(grid, placed_words,
                                                                forced_intersections)}
    /\ attempt' = attempt + 1
    /\ pc' = "strategy"
    /\ ClearAttempt
    /\ UNCHANGED <<unit_vars, input_vars, stage, stage_log, sa_vars, result>>

(***************************************************************************)
(* generate_with_size                                                      *)
(***************************************************************************)

\* remaining_h.shuffle(), remaining_v.shuffle(): horizontal words first
StdBeginAttempt ==
    /\ pc = "strategy"
    /\ Stage.algo = "standard"
    /\ attempt < StageAttempts(max_attempts)
    /\ \E hs \in Perms(Len(horizontal_words)), vs \in Perms(Len(vertical_words)) :
          queue' = [i \in 1..Len(hs) |-> [word_idx |-> hs[i], direction |-> Horizontal]]
                   \o [i \in 1..Len(vs) |-> [word_idx |-> vs[i], direction |-> Vertical]]
    /\ grid' = Grid_new(StageWidth, StageHeight)
    /\ placed_words' = <<>>
    /\ tries' = 0
    /\ pc' = "std_place"
    /\ UNCHANGED <<unit_vars, input_vars, stage, stage_log, strategy_vars, forced_queue,
                   forced_intersections, used_h_words, used_v_words, sa_vars, result>>

\* One turn of `while !placed && attempts < 150` for the word at the head of the
\* queue.  rng.gen_range(word.len()-1..bound) panics on the subtraction (overflow
\* checks) or on the empty range.
StdTry ==
    /\ pc = "std_place"
    /\ queue # <<>>
    /\ LET word == WordOf(Head(queue))
           direction == Head(queue).direction
           rows == Draws(FirstAnchorRow(word, direction), grid.height, RangeDraws)
           cols == Draws(FirstAnchorCol(word, direction), grid.width, RangeDraws)
       IN  IF (Len(word) = 0 /\ overflow_checks) \/ rows = {} \/ cols = {}
           THEN Panic
           ELSE \E row \in rows, col \in cols :
                  IF can_place_word(grid, word, row, col, direction)
                  THEN /\ grid' = place_word(grid, word, row, col, direction)
                       /\ placed_words' = Append(placed_words,
                                                 PlacedAt(word, row, col, direction))
                       /\ queue' = Tail(queue)
                       /\ tries' = 0
                       /\ UNCHANGED <<unit_vars, input_vars, pc, stage, stage_log, strategy_vars,
                                      forced_queue, forced_intersections,
                                      used_h_words, used_v_words, sa_vars, result>>
                  ELSE IF tries + 1 < StandardTries
                  THEN /\ tries' = tries + 1
                       /\ UNCHANGED <<unit_vars, input_vars, pc, stage, stage_log, strategy_vars,
                                      grid, placed_words, queue, forced_queue,
                                      forced_intersections, used_h_words,
                                      used_v_words, sa_vars, result>>
                  ELSE FailAttempt

StdEndAttempt ==
    /\ pc = "std_place"
    /\ queue = <<>>
    /\ LET score == standard_score(grid)
       IN  IF score < best_score
           THEN /\ best_score' = score
                /\ best_solution' = Some(grid, placed_words)
           ELSE UNCHANGED <<best_score, best_solution>>
    /\ success_scores' = success_scores \cup {standard_score(grid)}
    /\ attempt' = attempt + 1
    /\ pc' = "strategy"
    /\ ClearAttempt
    /\ UNCHANGED <<unit_vars, input_vars, stage, stage_log, sa_vars, result>>

(***************************************************************************)
(* generate: a strategy returns                                            *)
(***************************************************************************)

\* The strategy's attempt loop is over and it returns best_solution.  On Some
\* generate calls generate_simulated_annealing (its locals initialised), on None
\* it goes to the next entry of `algorithms`.
StrategyReturn ==
    /\ pc = "strategy"
    /\ attempt >= StageAttempts(max_attempts)
    /\ stage_log' = Append(stage_log,
                           [algo |-> Stage.algo, mult10 |-> Stage.mult10,
                            attempts |-> attempt, returned |-> best_solution])
    /\ IF best_solution.some
       THEN /\ pc' = "anneal"
            /\ initial_solution' = best_solution
            /\ current_solution' = best_solution
            /\ sa_best_solution' = best_solution
            /\ sa_best_score' = evaluate_solution(best_solution.grid,
                                                  best_solution.placed)
            /\ iteration' = 0
            /\ coolings' = 0
            /\ UNCHANGED stage
       ELSE /\ pc' = "generate"
            /\ stage' = stage + 1
            /\ UNCHANGED sa_vars
    /\ UNCHANGED <<unit_vars, input_vars, strategy_vars, attempt_vars, result>>

(***************************************************************************)
(* generate_simulated_annealing                                            *)
(***************************************************************************)

\* One iteration of the loop.  rng.gen::<f64>() is in [0, 1) and
\* (delta / temperature).exp() is 1 for delta = 0 and strictly between 0 and 1
\* for delta < 0 (temperature stays above 900), so a move that does not lower
\* the score is always accepted and a move that lowers it may or may not be.
AnnealStep ==
    /\ pc = "anneal"
    /\ iteration < AnnealIterations
    /\ coolings' = IF iteration % 50 = 0 THEN coolings + 1 ELSE coolings
    /\ iteration' = iteration + 1
    /\ IF current_solution.placed = <<>>
       THEN /\ pc' = pc
            /\ UNCHANGED <<current_solution, sa_best_solution, sa_best_score>>
       ELSE \E word_idx \in 0..Len(current_solution.placed)-1 :
              IF Len(current_solution.placed[word_idx + 1].word) = 0 /\ overflow_checks
              THEN /\ pc' = "panicked"
                   /\ UNCHANGED <<current_solution, sa_best_solution, sa_best_score>>
              ELSE \E new \in {try_optimize_single_word(current_solution.grid,
                                       current_solution.placed, word_idx)} :
                   \E new_score \in {evaluate_solution(new.grid, new.placed)},
                      current_score \in {evaluate_solution(current_solution.grid,
                                                           current_solution.placed)} :
                       /\ pc' = pc
                       /\ IF ~new.ok
                          THEN UNCHANGED <<current_solution, sa_best_solution,
                                           sa_best_score>>
                          ELSE \E accept \in
                                   (IF ScoreGE(new_score, current_score)
                                    THEN {TRUE} ELSE BOOLEAN) :
                                 IF accept
                                 THEN /\ current_solution' = Some(new.grid, new.placed)
                                      /\ IF ScoreGT(new_score, sa_best_score)
                                         THEN /\ sa_best_score' = new_score
                                              /\ sa_best_solution' =
                                                     Some(new.grid, new.placed)
                                         ELSE UNCHANGED <<sa_best_solution,
                                                          sa_best_score>>
                                 ELSE UNCHANGED <<current_solution, sa_best_solution,
                                                  sa_best_score>>
    /\ UNCHANGED <<unit_vars, input_vars, stage, stage_log, strategy_vars, attempt_vars,
                   initial_solution, result>>

\* A return of the currently accepted solution
AnnealReturnCurrent ==
    /\ pc = "anneal"
    /\ iteration = AnnealIterations
    /\ grid' = current_solution.grid
    /\ placed_words' = current_solution.placed
    /\ pc' = "compact"
    /\ UNCHANGED <<unit_vars, input_vars, stage, stage_log, strategy_vars, queue, forced_queue,
                   forced_intersections, used_h_words, used_v_words, tries, sa_vars,
                   result>>

\* The loop is over: best_solution is returned into generate's grid, placed_words.
AnnealReturn ==
    /\ pc = "anneal"
    /\ iteration = AnnealIterations
    /\ grid' = sa_best_solution.grid
    /\ placed_words' = sa_best_solution.placed
    /\ pc' = "compact"
    /\ UNCHANGED <<unit_vars, input_vars, stage, stage_log, strategy_vars, queue, forced_queue,
                   forced_intersections, used_h_words, used_v_words, tries, sa_vars,
                   result>>

(***************************************************************************)
(* generate: compaction, trimming, return                                  *)
(***************************************************************************)

\* usize::saturating_sub
saturating_sub(a, b) == IF a < b THEN 0 ELSE a - b

\* Phase 2: grid.compact() and the update of every word's anchor
Compact ==
    /\ pc = "compact"
    /\ grid' = compact(grid)
    /\ LET off == CompactOffset(grid)
       IN  placed_words' =
             [i \in 1..Len(placed_words) |->
                [placed_words[i] EXCEPT
                    !.start_row = saturating_sub(@, off[1]),
                    !.start_col = saturating_sub(@, off[2])]]
    /\ pc' = "trim"
    /\ UNCHANGED <<unit_vars, input_vars, stage, stage_log, strategy_vars, queue, forced_queue,
                   forced_intersections, used_h_words, used_v_words, tries, sa_vars,
                   result>>

\* Phase 3: one evaluation of the condition of
\* `while grid.try_remove_empty_rows_cols() {}`
Trim ==
    /\ pc = "trim"
    /\ grid' = try_remove_empty_rows_cols(grid)
    /\ pc' = IF TrimChanged(grid) THEN "trim" ELSE "return"
    /\ UNCHANGED <<unit_vars, input_vars, stage, stage_log, strategy_vars, placed_words, queue,
                   forced_queue, forced_intersections, used_h_words, used_v_words,
                   tries, sa_vars, result>>

\* return Some((grid, placed_words))
ReturnSome ==
    /\ pc = "return"
    /\ result' = Some(grid, placed_words)
    /\ pc' = "done"
    /\ UNCHANGED <<unit_vars, input_vars, stage, stage_log, strategy_vars, attempt_vars, sa_vars>>

Next ==
    \/ StartStage
    \/ ReturnNone
    \/ OptBeginAttempt
    \/ OptPlace
    \/ OptEndAttempt
    \/ IFBeginAttempt
    \/ IFForce
    \/ IFBeginPhase2
    \/ IFPlace
    \/ IFEndAttempt
    \/ StdBeginAttempt
    \/ StdTry
    \/ StdEndAttempt
    \/ StrategyReturn
    \/ AnnealStep
    \/ AnnealReturn
    \/ Compact
    \/ Trim
    \/ ReturnSome

Spec == Init /\ [][Next]_vars

(***************************************************************************)
(* Direct calls of the Grid methods and of remove_word_from_grid           *)
(***************************************************************************)

\* The side of the largest grid the direct calls are made on
UnitSide == 3

\* The most cells such a grid has populated before the first call
UnitFill == 3

\* Every grid of 1..UnitSide rows and columns whose cells are empty or hold 'A',
\* at most UnitFill of them populated
UnitGrids ==
    UNION {{g \in {[cells |-> c, width |-> w, height |-> h] :
                      c \in [0..h-1 -> [0..w-1 -> {None, "A"}]]} :
               Cardinality(Populated(g)) <= UnitFill} :
           h \in 1..UnitSide, w \in 1..UnitSide}

\* The side of the grids with more than 50 anchors for a one-letter word
WideSide == 8

\* The WideSide x WideSide grids that are empty or hold one 'A' in the middle
WideGrids ==
    {[cells |-> [r \in 0..WideSide-1 |-> [c \in 0..WideSide-1 |->
                    IF <<r, c>> \in P THEN "A" ELSE None]],
      width |-> WideSide, height |-> WideSide] :
        P \in SUBSET {<<WideSide \div 2, WideSide \div 2>>}}

\* The words the direct calls pass: empty, fitting an 'A' cell, clashing with it
UnitWords == {<<>>, <<"A">>, <<"B", "A">>, <<"A", "A", "B">>}

generate_vars == <<input_vars, pc, stage, stage_log, strategy_vars, attempt_vars,
                   sa_vars, result>>

\* No generate is running: a generator without words, before any call
GridInit ==
    /\ horizontal_words = <<>>
    /\ vertical_words = <<>>
    /\ max_attempts = 0
    /\ overflow_checks \in BOOLEAN
    /\ pc = "grid_api"
    /\ stage = 0
    /\ stage_log = <<>>
    /\ attempt = 0
    /\ best_solution = NoSolution
    /\ best_score = NegInfinity
    /\ success_scores = {}
    /\ grid = EmptyGrid
    /\ placed_words = <<>>
    /\ queue = <<>>
    /\ forced_queue = <<>>
    /\ forced_intersections = 0
    /\ used_h_words = <<>>
    /\ used_v_words = <<>>
    /\ tries = 0
    /\ initial_solution = NoSolution
    /\ current_solution = NoSolution
    /\ sa_best_solution = NoSolution
    /\ sa_best_score = NegInfinity
    /\ iteration = 0
    /\ coolings = 0
    /\ result = NoSolution
    /\ u_grid \in UnitGrids \cup WideGrids
    /\ u_call = NoCall
    /\ u_phase = "fresh"

\* The calls that read or write words are made on a grid as constructed or as
\* compaction left it; compact and trim may follow each other without end.
Compacting == u_call.op \in {"none", "compact", "try_remove_empty_rows_cols"}

\* grid.can_place_word(word, row, col, direction), the anchor up to one past
\* the last row and column.  &self: the grid is not written.
CallCanPlaceWord ==
    /\ pc = "grid_api"
    /\ Compacting
    /\ \E word \in UnitWords, row \in 0..u_grid.height, col \in 0..u_grid.width,
          direction \in {Horizontal, Vertical} :
          \E panics \in {can_place_word_panics(u_grid, word, row, col, direction)} :
             u_call' = [op |-> "can_place_word", word |-> word, row |-> row,
                        col |-> col, direction |-> direction, before |-> u_grid,
                        panicked |-> panics,
                        ret |-> IF panics THEN FALSE
                                ELSE can_place_word(u_grid, word, row, col, direction)]
    /\ UNCHANGED <<u_grid, u_phase, generate_vars>>

\* grid.place_word(word, row, col, direction)
CallPlaceWord ==
    /\ pc = "grid_api"
    /\ Compacting
    /\ \E word \in UnitWords, row \in 0..u_grid.height, col \in 0..u_grid.width,
          direction \in {Horizontal, Vertical} :
          \E panics \in {can_place_word_panics(u_grid, word, row, col, direction)} :
             /\ u_call' = [op |-> "place_word", word |-> word, row |-> row,
                           col |-> col, direction |-> direction, before |-> u_grid,
                           panicked |-> panics,
                           ret |-> IF panics THEN FALSE
                                   ELSE can_place_word(u_grid, word, row, col,
                                                       direction)]
             /\ u_grid' = IF panics THEN u_grid
                          ELSE place_word(u_grid, word, row, col, direction)
    /\ u_phase' = "fresh"
    /\ UNCHANGED generate_vars

\* remove_word_from_grid(&mut grid, &pw), the word's start up to one past the
\* last row and column
CallRemoveWordFromGrid ==
    /\ pc = "grid_api"
    /\ Compacting
    /\ \E word \in UnitWords, start_row \in 0..u_grid.height,
          start_col \in 0..u_grid.width, direction \in {Horizontal, Vertical} :
          \E pw \in {[word |-> word, start_row |-> start_row,
                      start_col |-> start_col, direction |-> direction]} :
          \E panics \in {remove_word_from_grid_panics(u_grid, pw)} :
             /\ u_call' = [op |-> "remove_word_from_grid", pw |-> pw,
                           before |-> u_grid, panicked |-> panics]
             /\ u_grid' = IF panics THEN u_grid ELSE remove_word_from_grid(u_grid, pw)
    /\ u_phase' = "fresh"
    /\ UNCHANGED generate_vars

\* remove_word_from_grid(&mut grid, &pw) for the word the last place_word call
\* placed, with the PlacedWord the strategies record for it
CallRemovePlacedWord ==
    /\ pc = "grid_api"
    /\ u_call.op = "place_word"
    /\ ~u_call.panicked
    /\ u_call.ret
    /\ \E pw \in {PlacedAt(u_call.word, u_call.row, u_call.col, u_call.direction)} :
       \E panics \in {remove_word_from_grid_panics(u_grid, pw)} :
          /\ u_call' = [op |-> "remove_placed_word", pw |-> pw,
                        word |-> u_call.word, row |-> u_call.row, col |-> u_call.col,
                        direction |-> u_call.direction,
                        placed_on |-> u_call.before, before |-> u_grid,
                        panicked |-> panics]
          /\ u_grid' = IF panics THEN u_grid ELSE remove_word_from_grid(u_grid, pw)
    /\ u_phase' = "fresh"
    /\ UNCHANGED generate_vars

\* grid.calculate_used_area()
CallCalculateUsedArea ==
    /\ pc = "grid_api"
    /\ Compacting
    /\ u_call' = [op |-> "calculate_used_area", before |-> u_grid, panicked |-> FALSE,
                  ret |-> calculate_used_area(u_grid)]
    /\ UNCHANGED <<u_grid, u_phase, generate_vars>>

\* grid.compact().  On a grid without rows or columns the copy loop reads
\* self.cells[0][0] and panics.
CallCompact ==
    /\ pc = "grid_api"
    /\ Compacting
    /\ \E panics \in {u_grid.height = 0 \/ u_grid.width = 0} :
          /\ u_call' = [op |-> "compact", before |-> u_grid, panicked |-> panics,
                        ret |-> IF panics THEN <<0, 0>> ELSE CompactOffset(u_grid)]
          /\ u_grid' = IF panics THEN u_grid ELSE compact(u_grid)
          /\ u_phase' = IF panics THEN "fresh"
                        ELSE IF u_phase = "stable" THEN "stable" ELSE "compacted"
    /\ UNCHANGED generate_vars

\* grid.try_remove_empty_rows_cols().  After compact() the calls of the loop
\* `while grid.try_remove_empty_rows_cols() {}` follow; the one that returns
\* false ends it.
CallTryRemoveEmptyRowsCols ==
    /\ pc = "grid_api"
    /\ Compacting
    /\ u_call' = [op |-> "try_remove_empty_rows_cols", before |-> u_grid,
                  panicked |-> FALSE, ret |-> TrimChanged(u_grid)]
    /\ u_grid' = try_remove_empty_rows_cols(u_grid)
    /\ u_phase' = IF u_phase \in {"compacted", "trimming"}
                  THEN (IF TrimChanged(u_grid) THEN "trimming" ELSE "stable")
                  ELSE u_phase
    /\ UNCHANGED generate_vars

\* generate_candidates(&grid, word, direction, &[]).  word.len()-1 panics on an
\* empty word in a build with overflow checks.
CallGenerateCandidates ==
    /\ pc = "grid_api"
    /\ Compacting
    /\ \E word \in UnitWords, direction \in {Horizontal, Vertical} :
          \E panics \in {Len(word) = 0 /\ overflow_checks} :
          \E cands \in {IF panics THEN <<0, <<>>>>
                         ELSE generate_candidates(u_grid, word, direction)} :
             u_call' = [op |-> "generate_candidates", word |-> word,
                        direction |-> direction, before |-> u_grid,
                        panicked |-> panics,
                        ret |-> [k \in 1..NumCandidates(cands) |->
                                    CandidateGet(cands, k - 1)]]
    /\ UNCHANGED <<u_grid, u_phase, generate_vars>>

GridNext ==
    \/ CallCanPlaceWord
    \/ CallPlaceWord
    \/ CallRemoveWordFromGrid
    \/ CallCalculateUsedArea
    \/ CallCompact
    \/ CallTryRemoveEmptyRowsCols
    \/ CallGenerateCandidates
    \/ CallRemovePlacedWord

GridSpec == GridInit /\ [][GridNext]_vars

(***************************************************************************)
(* Direct calls of find_all_intersections                                  *)
(***************************************************************************)

\* The longest word and the most horizontal words of the generators the direct
\* calls are made on
UnitWordLen == 2
UnitWordCount == 2

\* The words of at most UnitWordLen letters 'A' and 'B'
ShortWords == UNION {[1..n -> {"A", "B"}] : n \in 0..UnitWordLen}

\* The lists of at most n of them
ShortWordLists(n) == UNION {[1..k -> ShortWords] : k \in 0..n}

\* A generator as WordSearchGenerator::new leaves it, before any call: up to
\* UnitWordCount horizontal words, at most one vertical word
WordsInit ==
    /\ \E h \in ShortWordLists(UnitWordCount), v \in ShortWordLists(1) :
          /\ horizontal_words = SortByLenDesc(h)
          /\ vertical_words = SortByLenDesc(v)
    /\ max_attempts = 0
    /\ overflow_checks = FALSE
    /\ pc = "words_api"
    /\ stage = 0
    /\ stage_log = <<>>
    /\ attempt = 0
    /\ best_solution = NoSolution
    /\ best_score = NegInfinity
    /\ success_scores = {}
    /\ grid = EmptyGrid
    /\ placed_words = <<>>
    /\ queue = <<>>
    /\ forced_queue = <<>>
    /\ forced_intersections = 0
    /\ used_h_words = <<>>
    /\ used_v_words = <<>>
    /\ tries = 0
    /\ initial_solution = NoSolution
    /\ current_solution = NoSolution
    /\ sa_best_solution = NoSolution
    /\ sa_best_score = NegInfinity
    /\ iteration = 0
    /\ coolings = 0
    /\ result = NoSolution
    /\ u_grid = EmptyGrid
    /\ u_call = NoCall
    /\ u_phase = "fresh"

\* self.find_all_intersections()
CallFindAllIntersections ==
    /\ pc = "words_api"
    /\ u_call = NoCall
    /\ u_call' = [op |-> "find_all_intersections",
                  ret |-> find_all_intersections(horizontal_words, vertical_words)]
    /\ UNCHANGED <<u_grid, u_phase, generate_vars>>

WordsNext == CallFindAllIntersections

WordsSpec == WordsInit /\ [][WordsNext]_vars

(***************************************************************************)
(* Properties                                                              *)
(***************************************************************************)

\* generate has returned Some((grid, placed_words))
Returned == pc = "done" /\ result.some

\* The cell of the grid that character i (from 0) of a PlacedWord is read from
CellOf(pw, i) ==
    IF pw.direction = Horizontal
    THEN <<pw.start_row, pw.start_col + i>>
    ELSE <<pw.start_row + i, pw.start_col>>

\* Reading g from pw's anchor along its direction yields pw.word
ReadsBack(g, pw) ==
    \A i \in 0..Len(pw.word)-1 :
        /\ InGrid(g, CellOf(pw, i))
        /\ g.cells[CellOf(pw, i)[1]][CellOf(pw, i)[2]] = pw.word[i+1]

\* The whole span of word anchored at (row, col) lies inside g and every cell of
\* it is empty or holds the word's character for that cell
SpanFree(g, word, row, col, direction) ==
    \A i \in 0..Len(word)-1 :
        /\ InGrid(g, SpanCell(word, row, col, direction, i))
        /\ g.cells[SpanCell(word, row, col, direction, i)[1]]
                  [SpanCell(word, row, col, direction, i)[2]] \in {None, word[i+1]}

AllReadBack(g, placed) == \A k \in 1..Len(placed) : ReadsBack(g, placed[k])

\* Every populated cell that a listed word covers holds that word's character
Consistent(g, placed) ==
    \A k \in 1..Len(placed) : \A i \in 0..Len(placed[k].word)-1 :
        (/\ InGrid(g, CellOf(placed[k], i))
         /\ g.cells[CellOf(placed[k], i)[1]][CellOf(placed[k], i)[2]] # None)
        => g.cells[CellOf(placed[k], i)[1]][CellOf(placed[k], i)[2]]
             = placed[k].word[i+1]

\* The cells that both listed words k1 and k2 cover
SharedCells(placed, k1, k2) ==
    {CellOf(placed[k1], i) : i \in 0..Len(placed[k1].word)-1}
    \cap {CellOf(placed[k2], i) : i \in 0..Len(placed[k2].word)-1}

\* C1: whenever generate returns a layout, every returned PlacedWord reads back
\* from the returned grid at its anchor, character by character.
C1_ReturnedWordsReadBack == Returned => AllReadBack(result.grid, result.placed)

\* C2: in every state of the working solution (a strategy's attempt after each
\* placement, annealing's current and best solutions, the final output) every
\* populated cell covered by a listed word holds that word's character.
C2_CellsAgreeWithWords ==
    /\ pc \in {"opt_place", "if_phase1", "if_phase2", "std_place", "strategy"}
          => Consistent(grid, placed_words)
    /\ pc = "anneal"
          => /\ Consistent(current_solution.grid, current_solution.placed)
             /\ Consistent(sa_best_solution.grid, sa_best_solution.placed)
    /\ Returned => Consistent(result.grid, result.placed)

\* The number of entries of the list `placed` that are word w with direction d
CountPlaced(placed, w, d) ==
    Cardinality({k \in 1..Len(placed) : placed[k].word = w /\ placed[k].direction = d})

\* The number of entries of the word list `words` that are word w
CountWord(words, w) == Cardinality({k \in 1..Len(words) : words[k] = w})

\* C3: whenever generate returns a layout, the returned list is a permutation of
\* the input: every horizontal input word once as Horizontal, every vertical
\* input word once as Vertical, nothing else.
C3_ReturnedListIsPermutation ==
    Returned =>
       /\ Len(result.placed) = Len(horizontal_words) + Len(vertical_words)
       /\ \A k \in 1..Len(result.placed) :
             LET w == result.placed[k].word IN
             /\ CountPlaced(result.placed, w, Horizontal) = CountWord(horizontal_words, w)
             /\ CountPlaced(result.placed, w, Vertical) = CountWord(vertical_words, w)
       /\ \A k \in 1..Len(horizontal_words) :
             CountPlaced(result.placed, horizontal_words[k], Horizontal) >= 1
       /\ \A k \in 1..Len(vertical_words) :
             CountPlaced(result.placed, vertical_words[k], Vertical) >= 1

\* A returned list that annealing has reordered: the vertical word first
C3_Witness ==
    /\ Returned
    /\ Len(result.placed) = 2
    /\ result.placed[1].direction = Vertical
    /\ result.placed[2].direction = Horizontal

\* C4: if every placed word reads back before compaction (the solution annealing
\* returned), then after compact(), the subtraction of the offset from every
\* anchor and the trim loop, every placed word reads back at its adjusted anchor.
C4_CompactionKeepsReadBack ==
    (pc = "return" /\ AllReadBack(sa_best_solution.grid, sa_best_solution.placed))
       => AllReadBack(grid, placed_words)

\* The schedule the stages are expected to follow
ExpectedStages ==
    << <<"optimized", 6>>, <<"intersection-first", 7>>, <<"optimized", 8>>,
       <<"optimized", 10>>, <<"standard", 12>> >>

\* The trim loop run until try_remove_empty_rows_cols reports no change
RECURSIVE TrimmedGrid(_)
TrimmedGrid(g) ==
    IF TrimChanged(g) THEN TrimmedGrid(try_remove_empty_rows_cols(g)) ELSE g

AllReturnedNone(log) == \A i \in 1..Len(log) : ~log[i].returned.some

\* C5: the stages run in the order optimized@0.6, intersection-first@0.7,
\* optimized@0.8, optimized@1.0, standard@1.2, each on the estimate scaled by its
\* multiplier; no stage runs after one that returned Some; the result is that
\* stage's solution after annealing, compaction and trimming; generate returns
\* None exactly when all five stages returned None.
C5_StagesInOrderFirstSuccessStops ==
    /\ Len(stage_log) <= 5
    /\ \A i \in 1..Len(stage_log) :
          /\ <<stage_log[i].algo, stage_log[i].mult10>> = ExpectedStages[i]
          /\ i < Len(stage_log) => ~stage_log[i].returned.some
    /\ pc \in {"strategy", "opt_place", "if_phase1", "if_phase2", "std_place"}
          => /\ AllReturnedNone(stage_log)
             /\ Len(stage_log) = stage
             /\ <<Stage.algo, Stage.mult10>> = ExpectedStages[stage + 1]
             /\ grid.width # 0 =>
                   /\ grid.width * 10 <= ExpectedStages[stage + 1][2]
                         * estimate_grid_size(horizontal_words, vertical_words)[1]
                   /\ grid.width * 10 + 10 > ExpectedStages[stage + 1][2]
                         * estimate_grid_size(horizontal_words, vertical_words)[1]
    /\ pc \in {"anneal", "compact", "trim", "return"}
          => /\ stage_log[Len(stage_log)].returned.some
             /\ initial_solution = stage_log[Len(stage_log)].returned
    /\ pc = "return"
          => grid = TrimmedGrid(compact(sa_best_solution.grid))
    /\ pc = "done"
          => /\ ~result.some <=> (Len(stage_log) = 5 /\ AllReturnedNone(stage_log))
             /\ ~result.some => result = NoSolution
             /\ result.some
                   => /\ stage_log[Len(stage_log)].returned.some
                      /\ initial_solution = stage_log[Len(stage_log)].returned
                      /\ result.grid = TrimmedGrid(compact(sa_best_solution.grid))

\* generate returned the solution of the fifth stage after four stages failed
C5_Witness ==
    /\ Returned
    /\ Len(stage_log) = 5
    /\ \A i \in 1..4 : ~stage_log[i].returned.some

\* Some input word is longer than the side of the smallest stage grid
HasOversizedWord(hw, vw) ==
    \E i \in 1..Len(hw) + Len(vw) :
        Len((hw \o vw)[i]) > ScaleDim(estimate_grid_size(hw, vw)[1], 6)

\* C6: on an input with an empty word or with a word longer than a stage's grid
\* side generate never panics: it returns a layout or None.
C6_NoPanicOnEmptyOrOversizedWord ==
    (\/ HasEmptyWord(horizontal_words, vertical_words)
     \/ HasOversizedWord(horizontal_words, vertical_words))
       => pc # "panicked"

\* How far generate has got through `algorithms` when no attempt is made
C7_Position == 2 * stage + (IF pc = "generate" THEN 0 ELSE 1)

\* C7: with max_attempts = 1 generate never panics, never stops before it has
\* returned, takes a bounded number of steps (every step advances through the
\* five stages) and returns None, whatever the lengths of the input words.
C7_OneAttemptReturnsNone ==
    /\ [](max_attempts = 1 =>
             /\ pc # "panicked"
             /\ pc = "done" => ~result.some
             /\ pc # "done" => ENABLED Next
             /\ C7_Position <= 2 * 5 + 1)
    /\ [][max_attempts = 1 => C7_Position' > C7_Position]_vars

\* generate has returned None on one attempt for a ten-letter word
C7_Witness ==
    /\ max_attempts = 1
    /\ pc = "done"
    /\ ~result.some
    /\ Len(stage_log) = 5
    /\ Len(horizontal_words[1]) = 10

IsCatCar ==
    /\ horizontal_words = <<CAT>>
    /\ vertical_words = <<CAR>>
    /\ max_attempts = DefaultMaxAttempts

\* C8: for horizontal = ["CAT"], vertical = ["CAR"], max_attempts = 1000 generate
\* returns a layout of at most 5 x 5 in which both words read back and share
\* exactly one cell, the first cell of both, holding 'C'.
C8_CatCarCrossAtC ==
    IsCatCar =>
       /\ pc # "panicked"
       /\ pc = "done" =>
             /\ result.some
             /\ result.grid.height <= 5
             /\ result.grid.width <= 5
             /\ AllReadBack(result.grid, result.placed)
             /\ Len(result.placed) = 2
             /\ SharedCells(result.placed, 1, 2) = {CellOf(result.placed[1], 0)}
             /\ CellOf(result.placed[1], 0) = CellOf(result.placed[2], 0)
             /\ result.grid.cells[CellOf(result.placed[1], 0)[1]]
                                 [CellOf(result.placed[1], 0)[2]] = "C"

IsTwoHorizontal ==
    /\ Len(horizontal_words) = 2
    /\ vertical_words = <<>>
    /\ ~HasEmptyWord(horizontal_words, vertical_words)
    /\ max_attempts = DefaultMaxAttempts

\* C9: for two non-empty horizontal words and no vertical word, max_attempts =
\* 1000, generate returns a layout whatever the random choices, and the returned
\* grid is at least as wide as the longer word.
C9_TwoHorizontalWordsFit ==
    IsTwoHorizontal =>
       /\ pc # "panicked"
       /\ pc = "done" =>
             /\ result.some
             /\ result.grid.width >= MaxSeq(Lens(horizontal_words))

\* score x is at least score y, both finite
FiniteScoreGE(x, y) == ScoreNum(x, y) >= ScoreNum(y, x)

\* C10: during generate_simulated_annealing best_score never decreases from one
\* iteration to the next and is never below the score of the initial solution.
C10_BestScoreNeverDecreases ==
    /\ [](pc = "anneal" =>
             FiniteScoreGE(sa_best_score,
                           evaluate_solution(initial_solution.grid,
                                             initial_solution.placed)))
    /\ [][(pc = "anneal" /\ pc' = "anneal")
             => FiniteScoreGE(sa_best_score', sa_best_score)]_vars

\* Annealing has raised best_score above the initial score and has since
\* accepted a current solution that scores below the best
C10_Witness ==
    /\ pc = "anneal"
    /\ iteration > 0
    /\ ~FiniteScoreGE(evaluate_solution(initial_solution.grid,
                                        initial_solution.placed), sa_best_score)
    /\ ~FiniteScoreGE(evaluate_solution(current_solution.grid,
                                        current_solution.placed), sa_best_score)

\* Where generate is: the stage loop, annealing, compaction, the trim loop, the
\* return, the end
C12_Phase ==
    CASE pc \in {"generate", "strategy", "opt_place", "if_phase1", "if_phase2",
                 "std_place"} -> 0
      [] pc = "anneal" -> 1
      [] pc = "compact" -> 2
      [] pc = "trim" -> 3
      [] pc = "return" -> 4
      [] OTHER -> 5

\* How far generate has got, loop by loop from the outermost to the innermost:
\* the phase, the stage, whether its strategy has been called, the attempt,
\* the part of the attempt, the intersections and the words still to handle
\* (negated), the tries of the current word, the annealing iteration, the size
\* of the grid being trimmed (negated).
C12_Progress ==
    << C12_Phase,
       stage,
       IF pc = "generate" THEN 0 ELSE 1,
       attempt,
       CASE pc = "if_phase1" -> 1
         [] pc \in {"if_phase2", "opt_place", "std_place"} -> 2
         [] OTHER -> 0,
       0 - Len(forced_queue),
       0 - Len(queue),
       tries,
       iteration,
       IF pc = "trim" THEN 0 - (grid.height + grid.width) ELSE 0 >>

\* a comes before b in the lexicographic order
C12_Before(a, b) ==
    \E k \in 1..Len(a) : a[k] < b[k] /\ \A j \in 1..(k - 1) : a[j] = b[j]

\* C12: every call of generate comes to an end.  Every step of generate moves
\* strictly forward in C12_Progress, every component of which stays in a finite
\* range: at most max_attempts / 5 attempts a stage, at most 150 tries a word,
\* 100 annealing iterations, a trim loop that shrinks the grid at every turn
\* but the last.
C12_GenerateTerminates ==
    /\ [](/\ stage \in 0..5
          /\ attempt \in 0..(max_attempts \div 5)
          /\ Len(forced_queue) <= 3
          /\ Len(queue) <= Len(horizontal_words) + Len(vertical_words)
          /\ tries \in 0..149
          /\ iteration \in 0..100
          /\ pc = "trim" => grid.height + grid.width \in 0..(2 * StageHeight))
    /\ [][C12_Before(C12_Progress, C12_Progress')]_vars

\* generate has returned a layout: attempt loops, the 100 annealing iterations
\* and the trim loop are all behind it
C12_Witness ==
    /\ Returned
    /\ iteration = AnnealIterations
    /\ \E i \in 1..Len(stage_log) : stage_log[i].attempts > 0
    /\ ~TrimChanged(result.grid)

\* The attempts the strategy running now has begun
C13_AttemptsNow ==
    CASE pc = "strategy" -> attempt
      [] pc \in {"opt_place", "if_phase1", "if_phase2", "std_place"} -> attempt + 1
      [] OTHER -> 0

\* C13: no stage makes more than floor(max_attempts / 5) attempts, all stages
\* together make at most max_attempts, and annealing runs at most once, for
\* exactly 100 iterations.
C13_AttemptBudgetAndOneAnnealing ==
    /\ [](/\ C13_AttemptsNow <= max_attempts \div 5
          /\ \A i \in 1..Len(stage_log) :
                stage_log[i].attempts <= max_attempts \div 5
          /\ SumSeq([i \in 1..Len(stage_log) |-> stage_log[i].attempts])
                + C13_AttemptsNow <= max_attempts
          /\ pc = "anneal" => iteration \in 0..100
          /\ (pc \in {"compact", "trim", "return"} \/ Returned) => iteration = 100)
    /\ [][/\ (pc # "anneal" /\ pc' = "anneal")
                => (~initial_solution.some /\ initial_solution'.some
                    /\ iteration' = 0)
          /\ (pc = "anneal" /\ pc' # "anneal")
                => (iteration = 100 /\ pc' = "compact")
          /\ initial_solution.some => initial_solution' = initial_solution]_vars

\* generate has returned after a first stage that used its 200 attempts and
\* one annealing pass
C13_Witness ==
    /\ Returned
    /\ max_attempts = DefaultMaxAttempts
    /\ stage_log[1].attempts = 200
    /\ iteration = 100

\* C19: whenever phase 1 of generate_intersection_first force-places an
\* intersection (marks its two words used and pushes them to the placed list),
\* both words are written to the grid and they cross in one cell that holds the
\* shared letter: character h_char_idx of the horizontal word and character
\* v_char_idx of the vertical word occupy the same cell.
C19_ForcedWordsCrossAtSharedLetter ==
    [][(pc = "if_phase1" /\ forced_intersections' = forced_intersections + 1) =>
          /\ Len(placed_words') = Len(placed_words) + 2
          /\ ReadsBack(grid', placed_words'[Len(placed_words) + 1])
          /\ ReadsBack(grid', placed_words'[Len(placed_words) + 2])
          /\ CellOf(placed_words'[Len(placed_words) + 1], Head(forced_queue).h_char_idx)
               = CellOf(placed_words'[Len(placed_words) + 2],
                        Head(forced_queue).v_char_idx)]_vars

\* Score x is at least as good as score y for the strategy of the current stage:
\* the lower usize in generate_with_size, the higher f64 in the other two
AtLeastAsGood(x, y) ==
    IF Stage.algo = "standard" THEN x <= y ELSE FiniteScoreGE(x, y)

\* Every word of both input lists is in the list `placed`
PlacesEveryWord(placed) ==
    /\ Len(placed) = Len(horizontal_words) + Len(vertical_words)
    /\ \A k \in 1..Len(horizontal_words) :
          CountPlaced(placed, horizontal_words[k], Horizontal)
             = CountWord(horizontal_words, horizontal_words[k])
    /\ \A k \in 1..Len(vertical_words) :
          CountPlaced(placed, vertical_words[k], Vertical)
             = CountWord(vertical_words, vertical_words[k])

\* C20: in each strategy an attempt in which some word cannot be placed
\* contributes no solution and the loop goes on with the next attempt until the
\* budget is used; the strategy returns None exactly when no attempt placed every
\* word, and otherwise the solution of a successful attempt whose score is the
\* best among all successful attempts (lowest for generate_with_size, highest
\* for the other two), with every word of both lists in its placed list.
C20_StrategyReturnsBestSuccess ==
    /\ []((pc = "strategy" /\ stage < Len(algorithms)) =>
            /\ best_solution.some <=> success_scores # {}
            /\ best_solution.some =>
                  /\ best_score \in success_scores
                  /\ \A s \in success_scores : AtLeastAsGood(best_score, s)
                  /\ PlacesEveryWord(best_solution.placed)
                  /\ Stage.algo = "standard" =>
                        best_score = standard_score(best_solution.grid)
                  /\ Stage.algo = "optimized" =>
                        best_score = optimized_score(best_solution.grid,
                                                     best_solution.placed))
    /\ [][/\ (pc \in {"opt_place", "if_phase1", "if_phase2", "std_place"}
              /\ pc' = "strategy") =>
                /\ attempt' = attempt + 1
                /\ stage' = stage
                /\ stage_log' = stage_log
                /\ IF PlacesEveryWord(placed_words)
                   THEN /\ best_solution'.some
                        /\ success_scores' # {}
                        /\ best_solution' \in {best_solution, Some(grid, placed_words)}
                   ELSE /\ best_solution' = best_solution
                        /\ best_score' = best_score
                        /\ success_scores' = success_scores
          /\ (pc = "strategy" /\ pc' # "strategy") =>
                \/ /\ attempt < max_attempts \div 5
                   /\ pc' \in {"opt_place", "if_phase1", "std_place"}
                   /\ stage_log' = stage_log
                \/ /\ attempt = max_attempts \div 5
                   /\ stage_log' =
                         Append(stage_log,
                                [algo |-> Stage.algo, mult10 |-> Stage.mult10,
                                 attempts |-> max_attempts \div 5,
                                 returned |-> best_solution])
                   /\ pc' = IF best_solution.some THEN "anneal" ELSE "generate"
                   /\ best_solution.some => initial_solution' = best_solution]_vars

\* generate_with_size has returned the better of two successful attempts with
\* different scores, after four strategies in which no attempt placed every word
C20_Witness ==
    /\ Returned
    /\ Len(stage_log) = 5
    /\ \A i \in 1..4 : ~stage_log[i].returned.some
    /\ stage_log[5].attempts = 2
    /\ Cardinality(success_scores) = 2
    /\ stage_log[5].returned.some
    /\ \E s \in success_scores : standard_score(stage_log[5].returned.grid) < s

\* C21: generate_simulated_annealing returns the best-scoring solution among
\* the initial solution and every solution accepted as current: its
\* evaluate_solution score is at least the score of each of them, and the
\* returned grid and list are the snapshot taken when that score was recorded,
\* which later iterations do not alter.
C21_AnnealingReturnsBestSnapshot ==
    /\ []((pc = "anneal" \/ (pc = "compact" /\ initial_solution.some)) =>
            /\ sa_best_score = evaluate_solution(sa_best_solution.grid,
                                                 sa_best_solution.placed)
            /\ FiniteScoreGE(sa_best_score,
                             evaluate_solution(initial_solution.grid,
                                               initial_solution.placed))
            /\ FiniteScoreGE(sa_best_score,
                             evaluate_solution(current_solution.grid,
                                               current_solution.placed)))
    /\ [][/\ (pc = "anneal" /\ pc' = "anneal"
              /\ sa_best_solution' # sa_best_solution) =>
                /\ sa_best_solution' = current_solution'
                /\ ScoreNum(sa_best_score', sa_best_score)
                     > ScoreNum(sa_best_score, sa_best_score')
          /\ (pc = "anneal" /\ pc' = "compact") =>
                /\ grid' = sa_best_solution.grid
                /\ placed_words' = sa_best_solution.placed
                /\ sa_best_solution' = sa_best_solution]_vars

\* Annealing has returned a solution that scores above the initial one while
\* the last accepted current solution scores below the returned one
C21_Witness ==
    /\ pc = "compact"
    /\ initial_solution.some
    /\ grid = sa_best_solution.grid
    /\ placed_words = sa_best_solution.placed
    /\ ScoreNum(sa_best_score, evaluate_solution(initial_solution.grid,
                                                 initial_solution.placed))
         > ScoreNum(evaluate_solution(initial_solution.grid, initial_solution.placed),
                    sa_best_score)
    /\ ScoreNum(sa_best_score, evaluate_solution(current_solution.grid,
                                                 current_solution.placed))
         > ScoreNum(evaluate_solution(current_solution.grid, current_solution.placed),
                    sa_best_score)

\* C24: in generate_optimized, in phase 2 of generate_intersection_first and in
\* try_optimize_single_word, whenever generate_candidates returns a non-empty
\* list its first candidate is placed, so every word is placed at its top-ranked
\* candidate and an attempt fails only when the list is empty; in
\* try_optimize_single_word the list is never empty once the word is removed, so
\* the function returns true and never restores the original position.
\* (The list is PushedCandidates sorted; its first element is FirstCandidate.)
C24_TopCandidateIsAlwaysPlaced ==
    /\ []((pc = "anneal" /\ iteration < AnnealIterations) =>
            \A word_idx \in 0..Len(current_solution.placed)-1 :
               \E removed \in {current_solution.placed[word_idx + 1]} :
               \E g1 \in {remove_word_from_grid(current_solution.grid, removed)} :
               \E C \in {PushedCandidates(g1, removed.word, removed.direction)} :
                  /\ C # {}
                  /\ \E top \in {FirstCandidate(C)},
                        new \in {try_optimize_single_word(current_solution.grid,
                                     current_solution.placed, word_idx)} :
                        /\ SpanFree(g1, removed.word, top.row, top.col,
                                    removed.direction)
                        /\ new.ok
                        /\ new.grid = WriteWord(g1, removed.word, top.row, top.col,
                                                removed.direction)
                        /\ new.placed =
                              Append(RemoveAt(current_solution.placed, word_idx),
                                     PlacedAt(removed.word, top.row, top.col,
                                              removed.direction)))
    /\ [][(pc \in {"opt_place", "if_phase2"} /\ queue # <<>> /\ pc' # "panicked") =>
            \E word \in {WordOf(Head(queue))}, direction \in {Head(queue).direction} :
            \E C \in {PushedCandidates(grid, word, direction)} :
               IF C # {}
               THEN \E top \in {FirstCandidate(C)} :
                       /\ SpanFree(grid, word, top.row, top.col, direction)
                       /\ grid' = WriteWord(grid, word, top.row, top.col, direction)
                       /\ placed_words' =
                             Append(placed_words,
                                    PlacedAt(word, top.row, top.col, direction))
                       /\ queue' = Tail(queue)
                       /\ pc' = pc
                       /\ attempt' = attempt
               ELSE /\ pc' = "strategy"
                    /\ attempt' = attempt + 1
                    /\ best_solution' = best_solution]_vars

\* Annealing has moved a word of a solution of generate_intersection_first,
\* after every attempt of generate_optimized ran out of candidates for a word
C24_Witness ==
    /\ pc = "anneal"
    /\ iteration > 0
    /\ current_solution # initial_solution
    /\ Len(stage_log) = 2
    /\ stage_log[1].algo = "optimized"
    /\ stage_log[1].attempts > 0
    /\ ~stage_log[1].returned.some
    /\ stage_log[2].algo = "intersection-first"

\* Every populated cell of g lies inside the span of a listed word whose
\* character at that position is the cell's content
NoOrphanLetter(g, placed) ==
    \A rc \in Populated(g) :
       \E k \in 1..Len(placed) : \E i \in 0..Len(placed[k].word)-1 :
          /\ CellOf(placed[k], i) = rc
          /\ placed[k].word[i+1] = g.cells[rc[1]][rc[2]]

\* C25: in every (grid, placed-word list) state the three strategies and the
\* annealer reach before compaction, every populated cell lies inside the span
\* of a listed PlacedWord whose character at that position equals the cell's
\* content: the grid holds no letter that belongs to no listed word.
C25_NoLetterWithoutListedWord ==
    /\ pc \in {"opt_place", "if_phase1", "if_phase2", "std_place", "compact"} =>
          NoOrphanLetter(grid, placed_words)
    /\ (pc = "strategy" /\ best_solution.some) =>
          NoOrphanLetter(best_solution.grid, best_solution.placed)
    /\ pc = "anneal" =>
          /\ NoOrphanLetter(initial_solution.grid, initial_solution.placed)
          /\ NoOrphanLetter(current_solution.grid, current_solution.placed)
          /\ NoOrphanLetter(sa_best_solution.grid, sa_best_solution.placed)

\* Annealing holds a current solution in which a listed word no longer reads
\* back from the grid, whose letters all still belong to listed words
C25_Witness ==
    /\ pc = "anneal"
    /\ iteration > 0
    /\ Cardinality(Populated(current_solution.grid)) >= 2
    /\ ~AllReadBack(current_solution.grid, current_solution.placed)
    /\ current_solution # initial_solution

(***************************************************************************)
(* Properties of the direct calls                                          *)
(***************************************************************************)

\* C11: once compact() and the trim loop have run to stability on a grid with a
\* populated cell, every further compact() returns (0, 0), every further
\* try_remove_empty_rows_cols() returns false, and both leave the grid as it is.
C11_StableGridIsFixedPoint ==
    [][(/\ u_phase = "stable"
        /\ Populated(u_grid) # {}
        /\ u_call'.op \in {"compact", "try_remove_empty_rows_cols"})
          => /\ ~u_call'.panicked
             /\ u_grid' = u_grid
             /\ u_phase' = "stable"
             /\ u_call'.op = "compact" => u_call'.ret = <<0, 0>>
             /\ u_call'.op = "try_remove_empty_rows_cols" => u_call'.ret = FALSE]_vars

\* A compact() made on a stable 2 x 2 grid that still has empty cells
C11_Witness ==
    /\ u_phase = "stable"
    /\ u_call.op = "compact"
    /\ u_call.before = u_grid
    /\ u_grid.height = 2
    /\ u_grid.width = 2
    /\ Cardinality(Populated(u_grid)) = 2

\* C14: can_place_word returns true exactly when the whole span lies inside the
\* grid and every cell of it is empty or holds the word's character; for an
\* anchor whose span leaves the grid it returns false, it does not fail; it
\* never modifies the grid.
C14_CanPlaceWordIsTotal ==
    u_call.op = "can_place_word" =>
       /\ ~u_call.panicked
       /\ u_call.ret = SpanFree(u_call.before, u_call.word, u_call.row, u_call.col,
                                u_call.direction)
       /\ u_grid = u_call.before

\* The cells of the span of word anchored at (row, col)
SpanCells(word, row, col, direction) ==
    {SpanCell(word, row, col, direction, i) : i \in 0..Len(word)-1}

\* C15: place_word returns true exactly when can_place_word returns true for the
\* same arguments; on true every cell of the span holds the word's character and
\* every other cell is unchanged; on false the grid is left unchanged.
C15_PlaceWordWritesSpanOnly ==
    (u_call.op = "place_word" /\ ~u_call.panicked) =>
       /\ u_call.ret = SpanFree(u_call.before, u_call.word, u_call.row, u_call.col,
                                u_call.direction)
       /\ u_grid.height = u_call.before.height
       /\ u_grid.width = u_call.before.width
       /\ u_call.ret =>
            /\ \A i \in 0..Len(u_call.word)-1 :
                  u_grid.cells[SpanCell(u_call.word, u_call.row, u_call.col,
                                        u_call.direction, i)[1]]
                              [SpanCell(u_call.word, u_call.row, u_call.col,
                                        u_call.direction, i)[2]] = u_call.word[i+1]
            /\ \A rc \in (0..u_grid.height-1) \X (0..u_grid.width-1) :
                  rc \notin SpanCells(u_call.word, u_call.row, u_call.col,
                                      u_call.direction)
                    => u_grid.cells[rc[1]][rc[2]] = u_call.before.cells[rc[1]][rc[2]]
       /\ ~u_call.ret => u_grid = u_call.before

\* A two-letter word placed across a cell that already held its last letter,
\* with another populated cell outside the span
C15_Witness ==
    /\ u_call.op = "place_word"
    /\ ~u_call.panicked
    /\ u_call.ret
    /\ u_call.word = <<"B", "A">>
    /\ u_call.before.cells[u_call.row][u_call.col] = "A"
    /\ Populated(u_call.before) \ SpanCells(u_call.word, u_call.row, u_call.col,
                                            u_call.direction) # {}
    /\ u_grid # u_call.before

\* The cells of a placed word's span, from its start cell
PlacedSpan(pw) ==
    {IF pw.direction = Horizontal THEN <<pw.start_row, pw.start_col + i>>
                                  ELSE <<pw.start_row + i, pw.start_col>> :
        i \in 0..Len(pw.word)-1}

\* C16: remove_word_from_grid empties every cell of the word's span, whatever it
\* held, and leaves every cell outside the span and the dimensions unchanged.
C16_RemoveClearsSpanOnly ==
    (u_call.op = "remove_word_from_grid" /\ ~u_call.panicked) =>
       /\ u_grid.height = u_call.before.height
       /\ u_grid.width = u_call.before.width
       /\ \A rc \in (0..u_grid.height-1) \X (0..u_grid.width-1) :
             u_grid.cells[rc[1]][rc[2]] =
                IF rc \in PlacedSpan(u_call.pw)
                THEN None ELSE u_call.before.cells[rc[1]][rc[2]]

\* A two-letter word removed from inside the grid: a populated cell of its span
\* is cleared and a populated cell outside it is kept
C16_Witness ==
    /\ u_call.op = "remove_word_from_grid"
    /\ ~u_call.panicked
    /\ Len(u_call.pw.word) = 2
    /\ \A rc \in PlacedSpan(u_call.pw) : InGrid(u_grid, rc)
    /\ \A rc \in PlacedSpan(u_call.pw) : u_call.before.cells[rc[1]][rc[2]] = "A"
    /\ Populated(u_grid) # {}

\* The rows and the columns of g that hold a populated cell
UsedRows(g) == {r \in 0..g.height-1 : \E c \in 0..g.width-1 : g.cells[r][c] # None}
UsedCols(g) == {c \in 0..g.width-1 : \E r \in 0..g.height-1 : g.cells[r][c] # None}

\* C17: on a grid with a populated cell compact() returns (minRow, minCol) of the
\* used bounding box, sets height = maxRow-minRow+1 and width = maxCol-minCol+1,
\* and makes new cell (r, c) equal old cell (minRow+r, minCol+c);
\* calculate_used_area returns (0,0,0,0) when no cell is populated.
C17_CompactIsBoundingBox ==
    /\ (u_call.op = "compact" /\ UsedRows(u_call.before) # {}) =>
          /\ ~u_call.panicked
          /\ u_call.ret = <<SetMin(UsedRows(u_call.before)),
                            SetMin(UsedCols(u_call.before))>>
          /\ u_grid.height = SetMax(UsedRows(u_call.before))
                               - SetMin(UsedRows(u_call.before)) + 1
          /\ u_grid.width = SetMax(UsedCols(u_call.before))
                              - SetMin(UsedCols(u_call.before)) + 1
          /\ \A r \in 0..u_grid.height-1, c \in 0..u_grid.width-1 :
                u_grid.cells[r][c] = u_call.before.cells[u_call.ret[1] + r]
                                                        [u_call.ret[2] + c]
    /\ (u_call.op = "calculate_used_area" /\ UsedRows(u_call.before) = {}) =>
          /\ u_call.ret = <<0, 0, 0, 0>>
          /\ u_grid = u_call.before

\* compact() of a 3x3 grid whose used area is the 2x2 box at (1, 1)
C17_Witness ==
    /\ u_call.op = "compact"
    /\ u_call.before.height = 3
    /\ u_call.before.width = 3
    /\ u_call.ret = <<1, 1>>
    /\ u_grid.height = 2
    /\ u_grid.width = 2

\* The element of the set S of numbers that has exactly k smaller elements in S
NthOf(S, k) == CHOOSE x \in S : Cardinality({y \in S : y < x}) = k

\* C18: one call of try_remove_empty_rows_cols removes every fully-empty row and
\* column, interior ones included, keeps the order and content of the remaining
\* rows and columns, returns true exactly when it removed something, and leaves
\* no fully-empty row or column, so that the call that follows returns false.
C18_OneTrimRemovesAllEmpties ==
    /\ [](u_call.op = "try_remove_empty_rows_cols" =>
            /\ ~u_call.panicked
            /\ u_grid.height = Cardinality(UsedRows(u_call.before))
            /\ u_grid.width = Cardinality(UsedCols(u_call.before))
            /\ \A r \in 0..u_grid.height-1, c \in 0..u_grid.width-1 :
                  u_grid.cells[r][c] =
                     u_call.before.cells[NthOf(UsedRows(u_call.before), r)]
                                        [NthOf(UsedCols(u_call.before), c)]
            /\ u_call.ret = (\/ UsedRows(u_call.before) # 0..u_call.before.height-1
                             \/ UsedCols(u_call.before) # 0..u_call.before.width-1)
            /\ UsedRows(u_grid) = 0..u_grid.height-1
            /\ UsedCols(u_grid) = 0..u_grid.width-1)
    /\ [][(/\ u_call.op = "try_remove_empty_rows_cols"
           /\ u_call'.op = "try_remove_empty_rows_cols")
             => (~u_call'.ret /\ u_grid' = u_grid)]_vars

\* A call on a 3x3 grid whose middle row and middle column are empty
C18_Witness ==
    /\ u_call.op = "try_remove_empty_rows_cols"
    /\ u_call.ret
    /\ u_call.before.height = 3
    /\ u_call.before.width = 3
    /\ UsedRows(u_call.before) = {0, 2}
    /\ UsedCols(u_call.before) = {0, 2}
    /\ u_grid.height = 2
    /\ u_grid.width = 2

\* The anchors of g at which can_place_word holds for word
LegalAnchors(g, word, direction) ==
    {rc \in (0..g.height-1) \X (0..g.width-1) :
        SpanFree(g, word, rc[1], rc[2], direction)}

\* C22: generate_candidates returns only anchors at which can_place_word holds,
\* considers every such anchor of the grid, returns them in non-increasing score
\* order with equal scores in enumeration order, returns at most 50 of them (the
\* 50 best-scored when more exist), and returns an empty list exactly when no
\* legal anchor exists.
C22_CandidatesAreTheBestLegalAnchors ==
    u_call.op = "generate_candidates" =>
       /\ ~u_call.panicked
       /\ \A k \in 1..Len(u_call.ret) :
             /\ <<u_call.ret[k].row, u_call.ret[k].col>>
                   \in LegalAnchors(u_call.before, u_call.word, u_call.direction)
             /\ u_call.ret[k].direction = u_call.direction
             /\ u_call.ret[k].score =
                   calculate_placement_score(u_call.before, u_call.word,
                                             u_call.ret[k].row, u_call.ret[k].col,
                                             u_call.direction)
       /\ \A k \in 1..Len(u_call.ret)-1 :
             /\ ~ScoreGreater(u_call.ret[k+1].score, u_call.ret[k].score)
             /\ ~ScoreGreater(u_call.ret[k].score, u_call.ret[k+1].score) =>
                   \/ u_call.ret[k].row < u_call.ret[k+1].row
                   \/ /\ u_call.ret[k].row = u_call.ret[k+1].row
                      /\ u_call.ret[k].col < u_call.ret[k+1].col
       /\ Len(u_call.ret) =
             Min(Cardinality(LegalAnchors(u_call.before, u_call.word,
                                          u_call.direction)), 50)
       /\ \A rc \in LegalAnchors(u_call.before, u_call.word, u_call.direction) :
             \/ \E k \in 1..Len(u_call.ret) :
                   u_call.ret[k].row = rc[1] /\ u_call.ret[k].col = rc[2]
             \/ /\ Len(u_call.ret) = 50
                /\ ~ScoreGreater(calculate_placement_score(u_call.before, u_call.word,
                                                           rc[1], rc[2],
                                                           u_call.direction),
                                 u_call.ret[50].score)
       /\ (Len(u_call.ret) = 0) <=>
             (LegalAnchors(u_call.before, u_call.word, u_call.direction) = {})

\* C26: for a word placed by place_word at end anchor (row, col) onto cells that
\* were all empty, and recorded with the top-left anchor (Horizontal: start_row
\* = row, start_col = col + 1 - len; Vertical: start_row = row + 1 - len,
\* start_col = col), remove_word_from_grid on that record does not panic and
\* leaves the grid exactly as it was before the placement.
C26_RemoveUndoesPlacementOnEmptyCells ==
    (/\ u_call.op = "remove_placed_word"
     /\ \A rc \in SpanCells(u_call.word, u_call.row, u_call.col, u_call.direction) :
           u_call.placed_on.cells[rc[1]][rc[2]] = None) =>
       /\ ~u_call.panicked
       /\ u_call.pw.start_row =
             IF u_call.direction = Horizontal THEN u_call.row
             ELSE u_call.row + 1 - Len(u_call.word)
       /\ u_call.pw.start_col =
             IF u_call.direction = Horizontal THEN u_call.col + 1 - Len(u_call.word)
             ELSE u_call.col
       /\ u_call.before # u_call.placed_on <=> Len(u_call.word) > 0
       /\ u_grid = u_call.placed_on

\* A two-letter word placed onto empty cells beside a populated cell, then
\* removed: the letters are gone and the populated cell is kept
C26_Witness ==
    /\ u_call.op = "remove_placed_word"
    /\ ~u_call.panicked
    /\ Len(u_call.word) = 2
    /\ \A rc \in SpanCells(u_call.word, u_call.row, u_call.col, u_call.direction) :
          u_call.placed_on.cells[rc[1]][rc[2]] = None
    /\ Populated(u_call.placed_on) # {}
    /\ u_call.before # u_call.placed_on
    /\ u_grid = u_call.placed_on

(***************************************************************************)
(* Properties of find_all_intersections                                    *)
(***************************************************************************)

\* The number of times letter occurs in the words of the list
LetterCount(words, letter) ==
    Cardinality({p \in (1..Len(words)) \X (1..UnitWordLen + 1) :
                    p[2] <= Len(words[p[1]]) /\ words[p[1]][p[2]] = letter})

\* Twice the score 2*(len(h)+len(v)) + 20 - (|h_char_idx - len(h)/2|
\* + |v_char_idx - len(v)/2|) + 5*letterFrequency of the quadruple
\* (h, v, hc, vc), all indices from 0
QuadrupleScore2(h, v, hc, vc) ==
    4 * (Len(horizontal_words[h+1]) + Len(vertical_words[v+1])) + 40
    - (Abs(2 * hc - Len(horizontal_words[h+1]))
       + Abs(2 * vc - Len(vertical_words[v+1])))
    + 10 * (LetterCount(horizontal_words, horizontal_words[h+1][hc+1])
            + LetterCount(vertical_words, horizontal_words[h+1][hc+1]))

\* The quadruples whose two characters are equal
MatchingQuadruples ==
    {q \in (0..Len(horizontal_words)-1) \X (0..Len(vertical_words)-1)
           \X (0..UnitWordLen) \X (0..UnitWordLen) :
        /\ q[3] < Len(horizontal_words[q[1]+1])
        /\ q[4] < Len(vertical_words[q[2]+1])
        /\ horizontal_words[q[1]+1][q[3]+1] = vertical_words[q[2]+1][q[4]+1]}

\* The quadruple of an Intersection
QuadrupleOf(x) == <<x.h_word_idx, x.v_word_idx, x.h_char_idx, x.v_char_idx>>

\* Quadruple p is enumerated before quadruple q by the four nested loops
EnumeratedBefore(p, q) ==
    \E i \in 1..4 : p[i] < q[i] /\ \A j \in 1..(i-1) : p[j] = q[j]

\* C23: find_all_intersections returns exactly one Intersection for every
\* quadruple (horizontal word, vertical word, character index in each) whose two
\* characters are equal and none for any other; the result is in non-increasing
\* order of the score 2*(len(h)+len(v)) + 20 - (|h_char_idx - len(h)/2|
\* + |v_char_idx - len(v)/2|) + 5*letterFrequency, equal scores in enumeration
\* order.
C23_IntersectionsCompleteAndSorted ==
    u_call.op = "find_all_intersections" =>
       /\ Len(u_call.ret) = Cardinality(MatchingQuadruples)
       /\ \A q \in MatchingQuadruples :
             \E k \in 1..Len(u_call.ret) :
                /\ QuadrupleOf(u_call.ret[k]) = q
                /\ u_call.ret[k].character = horizontal_words[q[1]+1][q[3]+1]
       /\ \A k \in 1..Len(u_call.ret) : QuadrupleOf(u_call.ret[k]) \in MatchingQuadruples
       /\ \A k \in 1..Len(u_call.ret)-1 :
             \E a \in {QuadrupleOf(u_call.ret[k])}, b \in {QuadrupleOf(u_call.ret[k+1])} :
                \/ QuadrupleScore2(a[1], a[2], a[3], a[4])
                     > QuadrupleScore2(b[1], b[2], b[3], b[4])
                \/ /\ QuadrupleScore2(a[1], a[2], a[3], a[4])
                        = QuadrupleScore2(b[1], b[2], b[3], b[4])
                   /\ EnumeratedBefore(a, b)

\* A result in which the sort has moved a later quadruple forward and has kept
\* two quadruples of equal score in enumeration order
C23_Witness ==
    /\ u_call.op = "find_all_intersections"
    /\ \E k \in 1..Len(u_call.ret)-1 :
          EnumeratedBefore(QuadrupleOf(u_call.ret[k+1]), QuadrupleOf(u_call.ret[k]))
    /\ \E k \in 1..Len(u_call.ret)-1 :
          \E a \in {QuadrupleOf(u_call.ret[k])}, b \in {QuadrupleOf(u_call.ret[k+1])} :
             QuadrupleScore2(a[1], a[2], a[3], a[4])
                = QuadrupleScore2(b[1], b[2], b[3], b[4])

=============================================================================
